---- MODULE Spec2Model ----
(***************************************************************************)
(* Model of the record importer of backend/app/api/imports.py              *)
(* (import_crash_file, import_ticket_file), of the SQLAlchemy session it   *)
(* runs on (backend/app/database.py: autocommit=False, autoflush=False),   *)
(* of the two tables core_crash / core_ticket with their UNIQUE key        *)
(* columns (backend/app/models/core.py), of the administrative reset       *)
(* (backend/app/api/admin.py) and of the read-only status query.           *)
(*                                                                         *)
(* An import request is a small process: Start reads the upload, Row       *)
(* handles one data row (key resolution, duplicate query, time parsing,    *)
(* db.add), Commit is the db.commit() taken when the new counter reaches a *)
(* multiple of the batch size, Final is the closing db.commit() plus the   *)
(* response, Close is the db.close() of get_db.  Requests of different     *)
(* worker processes interleave between these steps.                        *)
(*                                                                         *)
(* Three specifications share the actions:                                 *)
(*   Spec       one request at a time, files of up to MaxRows rows;        *)
(*   SpecRace   two requests in flight, MaxRaceRows rows between them;     *)
(*   SpecTwice  a file of up to MaxKept rows imported and imported again.  *)
(* The pure functions of the importer and of the recommendation API have   *)
(* specifications of their own, further down: each draws the arguments of  *)
(* one call from a bounded set and applies the function to them.           *)
(*                                                                         *)
(* Session semantics modelled (SQLAlchemy): a query never sees objects     *)
(* that are only pending in a session (autoflush is off, and pending       *)
(* objects of other sessions are invisible); commit flushes all pending    *)
(* objects in one transaction; a UNIQUE violation raises IntegrityError,   *)
(* rolls the transaction back, expunges the pending objects and leaves the *)
(* session inactive: every later query or commit on it raises until        *)
(* rollback() is called, which the importer never does.                    *)
(***************************************************************************)
EXTENDS Integers, Sequences, FiniteSets, TLC

VARIABLES
    crashes,    \* committed rows of table core_crash
    tickets,    \* committed rows of table core_ticket
    req,        \* the import requests in flight, one per slot
    rowsRead,   \* number of data rows drawn so far (bounds the exploration)
    started,    \* number of uploads so far; the next batch id
    call        \* the call of a pure function under evaluation

vars == <<crashes, tickets, req, rowsRead, started, call>>

---------------------------------------------------------------------------
(* Bounds of the exploration *)

\* data rows drawn from the input domain in one behaviour of Spec
MaxRows == 4
\* uploads in one behaviour of Spec and of SpecRace
MaxImports == 2
\* uploads in one behaviour of SpecTwice
MaxUploads == 3
\* data rows drawn in one behaviour of SpecRace
MaxRaceRows == 2
\* rows of the file that SpecTwice uploads twice
MaxKept == 2
\* rows above the header row of an uploaded crash sheet
MaxTitles == 1
\* The importer commits every 100 new records (imports.py:477, 652) and
\* samples the first 10 error messages (imports.py:482, 500, 657, 681).
\* Both are scaled down so that files of MaxRows rows cross them.
CommitEvery == 2
ErrorSample == 2

\* Program constants
BlankRowCells == 3
HeaderScanRows == 10

Slots == DOMAIN req

---------------------------------------------------------------------------
(* Spreadsheet cells and rows *)

NaN == "NaN"        \* pandas' missing value: an empty cell
None == "None"

\* str(v): NaN is a float and prints as "nan"
Str(v) == IF v = NaN THEN "nan" ELSE v

\* s.strip()
Strip(s) ==
    CASE s = " " -> ""
      [] s = " a2 " -> "a2"
      [] OTHER -> s

\* s.upper()
Upper(s) ==
    CASE s = "a2" -> "A2"
      [] s = "nan" -> "NAN"
      [] OTHER -> s

\* any(c.isdigit() for c in val)
HasDigit(s) == s \in {"K1", "K2", "K3", "T1", "T2"}

---------------------------------------------------------------------------
(* Text of a cell as a sequence of characters, and parse_roc_datetime *)

\* s[i], a character of no class past the end
At(s, i) == IF i >= 1 /\ i <= Len(s) THEN s[i] ELSE "$"

\* number of characters of class cls that s holds from position i on
RECURSIVE Run(_, _, _)
Run(s, i, cls) == IF At(s, i) \in cls THEN 1 + Run(s, i + 1, cls) ELSE 0

\* s.strip()
RECURSIVE StripText(_)
StripText(s) ==
    IF s = <<>> THEN s
    ELSE IF Head(s) = " " THEN StripText(Tail(s))
    ELSE IF s[Len(s)] = " " THEN StripText(SubSeq(s, 1, Len(s) - 1))
    ELSE s

Numerals == <<"0", "1", "2", "3", "4", "5", "6", "7", "8", "9">>
Numeral == {Numerals[i] : i \in 1..10}    \* \d
DateSeparators == {"/", "-"}               \* [/-]
Blank == {" "}                             \* \s

\* int() of the n digits that s holds from position i on
RECURSIVE IntOf(_, _, _)
IntOf(s, i, n) ==
    IF n = 0 THEN 0
    ELSE IntOf(s, i, n - 1) * 10
         + (CHOOSE v \in 0..9 : Numerals[v + 1] = s[i + n - 1])

\* results of parse_roc_datetime other than a timestamp
NoDatetime == [kind |-> "None"]
ValueError == [kind |-> "ValueError"]

IsLeap(year) == year % 4 = 0 /\ (year % 100 # 0 \/ year % 400 = 0)

DaysIn(year, month) ==
    IF month = 2 THEN (IF IsLeap(year) THEN 29 ELSE 28)
    ELSE IF month \in {4, 6, 9, 11} THEN 30 ELSE 31

\* datetime(year, month, day, hour, minute, second)
datetime(year, month, day, hour, minute, second) ==
    IF /\ month \in 1..12
       /\ day >= 1 /\ day <= DaysIn(year, month)
       /\ hour \in 0..23 /\ minute \in 0..59 /\ second \in 0..59
    THEN [kind |-> "datetime", year |-> year, month |-> month, day |-> day,
          hour |-> hour, minute |-> minute, second |-> second]
    ELSE ValueError

\* an item of a pattern: lo to hi characters of class cls, any number from
\* lo on when more is set
Item(cls, lo, hi, more) == [cls |-> cls, lo |-> lo, hi |-> hi, more |-> more]

\* (\d{2,3})[/-](\d{1,2})[/-](\d{1,2})
DateItems ==
    <<Item(Numeral, 2, 3, FALSE), Item(DateSeparators, 1, 1, FALSE),
      Item(Numeral, 1, 2, FALSE), Item(DateSeparators, 1, 1, FALSE),
      Item(Numeral, 1, 2, FALSE)>>

\* \s+(\d{1,2}):(\d{2})
MinuteItems ==
    <<Item(Blank, 1, 1, TRUE), Item(Numeral, 1, 2, FALSE),
      Item({":"}, 1, 1, FALSE), Item(Numeral, 2, 2, FALSE)>>

\* :(\d{2})
SecondItems == <<Item({":"}, 1, 1, FALSE), Item(Numeral, 2, 2, FALSE)>>

\* the three patterns in the order they are tried
Patterns ==
    <<DateItems \o MinuteItems \o SecondItems, DateItems \o MinuteItems,
      DateItems>>

\* re.match(pattern, s) from position i on: each item takes as many
\* characters as it may and gives characters back while the rest of the
\* pattern does not match; what follows the match is not looked at.  The
\* result tells whether the pattern matched and where each item matched.
RECURSIVE Match(_, _, _)
RECURSIVE MatchItem(_, _, _, _)
Match(pattern, s, i) ==
    IF pattern = <<>> THEN [ok |-> TRUE, groups |-> <<>>]
    ELSE MatchItem(pattern, s, i, Run(s, i, Head(pattern).cls))

\* the first item of the pattern on n characters at most
MatchItem(pattern, s, i, n) ==
    IF n > Head(pattern).hi /\ ~Head(pattern).more
    THEN MatchItem(pattern, s, i, Head(pattern).hi)
    ELSE IF n < Head(pattern).lo THEN [ok |-> FALSE, groups |-> <<>>]
    ELSE LET rest == Match(Tail(pattern), s, i + n)
         IN  IF rest.ok
             THEN [ok |-> TRUE,
                   groups |-> <<[at |-> i, len |-> n]>> \o rest.groups]
             ELSE MatchItem(pattern, s, i, n - 1)

\* int(groups[k]) for the item at place k of the pattern, 0 when the pattern
\* has no such item
Group(s, groups, k) ==
    IF k <= Len(groups) THEN IntOf(s, groups[k].at, groups[k].len) ELSE 0

\* the loop over the patterns: the first that matches gives the result
RECURSIVE FirstMatch(_, _)
FirstMatch(patterns, s) ==
    IF patterns = <<>> THEN NoDatetime
    ELSE LET match == Match(Head(patterns), s, 1)
         IN  IF match.ok
             THEN datetime(Group(s, match.groups, 1) + 1911,
                           Group(s, match.groups, 3), Group(s, match.groups, 5),
                           Group(s, match.groups, 7), Group(s, match.groups, 9),
                           Group(s, match.groups, 11))
             ELSE FirstMatch(Tail(patterns), s)

\* parse_roc_datetime(roc_str): roc_str is <<>> for a null cell and <<text>>
\* for a string
parse_roc_datetime(roc_str) ==
    IF roc_str = <<>> \/ roc_str[1] = <<>> THEN NoDatetime
    ELSE FirstMatch(Patterns, StripText(roc_str[1]))

\* variant: the shifts are numbered from 0
calculate_shift_from_zero(dt) ==
    IF dt = NoDatetime THEN <<"0", "1">>
    ELSE LET shift == dt.hour \div 2
         IN  <<Numerals[(shift \div 10) + 1], Numerals[(shift % 10) + 1]>>

\* calculate_shift(dt): the two characters of the shift of a timestamp
calculate_shift(dt) ==
    IF dt = NoDatetime THEN <<"0", "1">>
    ELSE LET shift == (dt.hour \div 2) + 1
         IN  <<Numerals[(shift \div 10) + 1], Numerals[(shift % 10) + 1]>>

---------------------------------------------------------------------------
(* The age and birth-date cells of a crash row *)

\* what row.get(column) gives: None when the sheet has no such column, NaN
\* for an empty cell, a number or a text
Absent == [t |-> "None"]
Empty == [t |-> "nan"]
Number(v) == [t |-> "number", v |-> v]
Text(s) == [t |-> "text", s |-> s]

\* bool(cell): None, 0 and the empty text are false, NaN is true
Truthy(cell) ==
    \/ cell.t = "nan"
    \/ cell.t = "number" /\ cell.v # 0
    \/ cell.t = "text" /\ cell.s # <<>>

\* a or b
Or(a, b) == IF Truthy(a) THEN a ELSE b

\* pd.isna(cell)
IsNa(cell) == cell.t \in {"None", "nan"}

OverflowError == [kind |-> "OverflowError"]

NoAge == [kind |-> "ok", driver_age_group |-> "unknown", is_elderly |-> FALSE]

AgeGroup(group, elderly) ==
    [kind |-> "ok", driver_age_group |-> group, is_elderly |-> elderly]

\* classify_age(age): int(float(age)) raises OverflowError for the text inf,
\* which the function does not catch, and ValueError for a text that is no
\* number, which it does
classify_age(age) ==
    IF IsNa(age) THEN NoAge
    ELSE IF age.t = "text" /\ age.s = <<"i", "n", "f">> THEN OverflowError
    ELSE IF age.t = "text" /\ Run(age.s, 1, Numeral) < Len(age.s) THEN NoAge
    ELSE IF age.t = "text" /\ age.s = <<>> THEN NoAge
    ELSE LET n == IF age.t = "text" THEN IntOf(age.s, 1, Len(age.s)) ELSE age.v
         IN  IF n < 18 THEN AgeGroup("<18", FALSE)
             ELSE IF n < 25 THEN AgeGroup("18-24", FALSE)
             ELSE IF n < 45 THEN AgeGroup("25-44", FALSE)
             ELSE IF n < 65 THEN AgeGroup("45-64", FALSE)
             ELSE AgeGroup("65+", TRUE)

\* the age on the day of the crash of someone born on birth_dt
AgeOn(occurred_dt, birth_dt) ==
    occurred_dt.year - birth_dt.year
    - (IF \/ occurred_dt.month < birth_dt.month
          \/ occurred_dt.month = birth_dt.month /\ occurred_dt.day < birth_dt.day
       THEN 1 ELSE 0)

\* the grouping of import_crash_file for an age computed from a birth date
BirthGroup(age) ==
    IF age >= 65 THEN AgeGroup("65+", TRUE)
    ELSE IF age < 18 THEN AgeGroup("<18", FALSE)
    ELSE IF age < 25 THEN AgeGroup("18-24", FALSE)
    ELSE IF age < 45 THEN AgeGroup("25-44", FALSE)
    ELSE AgeGroup("45-64", FALSE)

\* age_val and birth_date_val of a row whose sheet has the first two of the
\* three age columns and the first of the three birth-date columns
age_val(opt) == Or(Or(opt.age, opt.age2), Absent)
birth_date_val(opt) == Or(Or(opt.birth, Absent), Absent)

\* driver_age_group and is_elderly of a crash row, or the exception raised
\* on the way
DriverAge(opt, occurred_dt) ==
    IF ~IsNa(age_val(opt)) THEN classify_age(age_val(opt))
    ELSE IF ~IsNa(birth_date_val(opt))
    THEN LET birth_dt == IF birth_date_val(opt).t = "text"
                         THEN parse_roc_datetime(<<birth_date_val(opt).s>>)
                         ELSE NoDatetime
         IN  IF birth_dt = ValueError THEN ValueError
             ELSE IF birth_dt = NoDatetime THEN NoAge
             ELSE BirthGroup(AgeOn(occurred_dt, birth_dt))
    ELSE NoAge

\* a row without age and birth-date columns
NoOptional == [age |-> Absent, age2 |-> Absent, birth |-> Absent]

\* 40/13/40: of an accepted shape, no calendar date
BirthInvalid == <<"4", "0", "/", "1", "3", "/", "4", "0">>

\* texts of a time cell: 114/01/08 09:30, one that matches none of the three
\* patterns, and 114/13/40, which matches a pattern and is no calendar date
TimeOk == <<"1", "1", "4", "/", "0", "1", "/", "0", "8", " ", "0", "9", ":", "3", "0">>
TimeBad == <<"y", "e", "s", "t", "e", "r", "d", "a", "y">>
TimeInvalid == <<"1", "1", "4", "/", "1", "3", "/", "4", "0">>

\* a data row of a crash sheet: the case-identifier cell, the occurrence-time
\* cell (<<>> when empty, <<text>> otherwise), the category cell and the
\* number of non-empty cells of the row, the age and birth-date cells
CrashRows ==
    {[id |-> NaN, tm |-> <<TimeOk>>, dat |-> "A1", ne |-> 2, opt |-> NoOptional],
     [id |-> "total", tm |-> <<>>, dat |-> "A3", ne |-> 3, opt |-> NoOptional],
     [id |-> "K1", tm |-> <<TimeOk>>, dat |-> "A1", ne |-> 3, opt |-> NoOptional],
     [id |-> "K1", tm |-> <<TimeOk>>, dat |-> "A4", ne |-> 3, opt |-> NoOptional],
     [id |-> "K2", tm |-> <<TimeOk>>, dat |-> " a2 ", ne |-> 3, opt |-> NoOptional],
     [id |-> "K3", tm |-> <<TimeOk>>, dat |-> NaN, ne |-> 3, opt |-> NoOptional],
     [id |-> "K1", tm |-> <<TimeBad>>, dat |-> "A3", ne |-> 3, opt |-> NoOptional],
     [id |-> "K2", tm |-> <<TimeInvalid>>, dat |-> "A3", ne |-> 3, opt |-> NoOptional],
     [id |-> "K3", tm |-> <<TimeOk>>, dat |-> "A1", ne |-> 4,
      opt |-> [age |-> Empty, age2 |-> Absent, birth |-> Text(BirthInvalid)]]}

\* a data row of a ticket sheet: the ticket-number cell, the violation-time
\* cell and the violation-clause cell
TicketRows ==
    {[id |-> NaN, tm |-> <<TimeOk>>, dat |-> "3501", ne |-> 2],
     [id |-> " ", tm |-> <<TimeOk>>, dat |-> "3501", ne |-> 2],
     [id |-> "T1", tm |-> <<TimeOk>>, dat |-> "3501", ne |-> 3],
     [id |-> "T1", tm |-> <<TimeOk>>, dat |-> "5301", ne |-> 3],
     [id |-> "T2", tm |-> <<TimeOk>>, dat |-> "5301", ne |-> 3],
     [id |-> "T1", tm |-> <<TimeBad>>, dat |-> "3501", ne |-> 3],
     [id |-> "T2", tm |-> <<TimeInvalid>>, dat |-> "5301", ne |-> 3]}

\* the loop variable before the first row
NoRow == [id |-> NaN, tm |-> <<>>, dat |-> NaN, ne |-> 0, opt |-> NoOptional]

RowsOf(kind) == IF kind = "crash" THEN CrashRows ELSE TicketRows

---------------------------------------------------------------------------
(* Key resolution, time parsing and the records built from a row *)

\* import_crash_file: the case identifier of a row, None when the cell is
\* empty or holds no digit
case_id(row) ==
    IF row.id # NaN
    THEN LET val == Strip(Str(row.id))
         IN  IF val # "" /\ HasDigit(val) THEN val ELSE None
    ELSE None

\* import_ticket_file: str(row.get(<ticket number column>, "")).strip()
ticket_number(row) == Strip(Str(row.id))

\* outcome of parse_roc_datetime on a time cell: NoDatetime for an empty
\* cell or a text of no accepted shape, ValueError when datetime() rejects
\* the numbers, the timestamp otherwise
ParseTime(cell) == parse_roc_datetime(cell)

\* dt.date()
DateOf(dt) == [year |-> dt.year, month |-> dt.month, day |-> dt.day]

\* days of the year before the first of the month
RECURSIVE DaysBeforeMonth(_, _)
DaysBeforeMonth(year, month) ==
    IF month = 1 THEN 0
    ELSE DaysBeforeMonth(year, month - 1) + DaysIn(year, month - 1)

\* dt.toordinal(): the number of the day, 1 for January 1st of year 1
ToOrdinal(dt) ==
    LET y == dt.year - 1
    IN  y * 365 + (y \div 4) - (y \div 100) + (y \div 400)
        + DaysBeforeMonth(dt.year, dt.month) + dt.day

\* dt.weekday(): 0 for Monday to 6 for Sunday
Weekday(dt) == (ToOrdinal(dt) + 6) % 7

\* variant: a category outside the enumeration is stored as it is
SeverityAsRead(cell) ==
    IF cell # NaN THEN Upper(Strip(Str(cell))) ELSE "A3"

\* severity of a crash row: the trimmed upper-cased category cell, A3 when
\* the cell is empty or holds none of the three categories
Severity(cell) ==
    LET severity == IF cell # NaN THEN Upper(Strip(Str(cell))) ELSE "A3"
    IN  IF severity \notin {"A1", "A2", "A3"} THEN "A3" ELSE severity

get_severity_weight(severity) ==
    CASE severity = "A1" -> 5
      [] severity = "A2" -> 3
      [] severity = "A3" -> 1
      [] OTHER -> 1

\* violation code of a ticket row
ViolationCode(cell) == IF cell = NaN THEN "" ELSE cell

\* the Crash object of a row, or the exception raised while its optional
\* cells are read
NewCrash(cid, row, batch) ==
    LET occurred_dt == ParseTime(row.tm)
        age == DriverAge(row.opt, occurred_dt)
    IN  IF age.kind # "ok" THEN age
        ELSE
        [key |-> cid, import_batch_id |-> batch, dat |-> Severity(row.dat),
         occurred_date |-> DateOf(occurred_dt), occurred_time |-> occurred_dt,
         shift_id |-> calculate_shift(occurred_dt),
         severity |-> Severity(row.dat),
         severity_weight |-> get_severity_weight(Severity(row.dat)),
         year |-> occurred_dt.year, month |-> occurred_dt.month,
         day_of_week |-> Weekday(occurred_dt),
         driver_age_group |-> age.driver_age_group,
         is_elderly |-> age.is_elderly]

NewTicket(tno, row, batch) ==
    LET violation_dt == ParseTime(row.tm)
    IN  [key |-> tno, import_batch_id |-> batch, dat |-> ViolationCode(row.dat),
         violation_date |-> DateOf(violation_dt), violation_time |-> violation_dt,
         shift_id |-> calculate_shift(violation_dt),
         year |-> violation_dt.year, month |-> violation_dt.month,
         day_of_week |-> Weekday(violation_dt)]

---------------------------------------------------------------------------
(* The store *)

TableOf(kind) == IF kind = "crash" THEN crashes ELSE tickets

\* db.query(Model).filter(Model.key == k).first(): committed rows only
Existing(table, k) == \E c \in table : c.key = k

\* variant: the key column carries no UNIQUE index
NoUniqueIndex(pending, table) == FALSE

\* the UNIQUE index on case_id / ticket_number rejects the flush
UniqueViolation(pending, table) ==
    \/ \E i, j \in 1..Len(pending) : i < j /\ pending[i].key = pending[j].key
    \/ \E i \in 1..Len(pending) : Existing(table, pending[i].key)

SeqRange(s) == {s[i] : i \in 1..Len(s)}

\* variant: the records are merged (upsert) instead of added
FlushMerge(pending, table) ==
    [raised |-> None,
     table |-> {c \in table : \A i \in 1..Len(pending) : pending[i].key # c.key}
               \cup {pending[i] : i \in {j \in 1..Len(pending) :
                        \A k \in (j + 1)..Len(pending) : pending[k].key # pending[j].key}}]

\* the flush of db.commit(): all pending objects are inserted in one
\* transaction, or none is and IntegrityError is raised
Flush(pending, table) ==
    IF UniqueViolation(pending, table)
    THEN [raised |-> "IntegrityError", table |-> table]
    ELSE [raised |-> None, table |-> table \cup SeqRange(pending)]

---------------------------------------------------------------------------
(* Requests *)

IdleReq ==
    [kind |-> "none", pc |-> "idle", file |-> <<>>, lazy |-> TRUE,
     keep |-> FALSE, idx |-> 0, row |-> NoRow, failed |-> <<>>,
     header_row |-> 0, sess |-> "active", pending |-> <<>>,
     new |-> 0, skipped |-> 0, errors |-> 0, error_messages |-> <<>>,
     batch_id |-> 0, resp |-> "none", returned |-> <<>>, db_total |-> 0,
     durable |-> 0, rerun |-> FALSE, first |-> 0, count0 |-> 0]

Min(a, b) == IF a < b THEN a ELSE b

\* the top of a raw sheet with `titles` rows above the header row: for each
\* raw row, whether its text holds one of the accepted header strings
SheetTop(titles) == [i \in 1..(titles + 1) |-> i = titles + 1]

\* header_row of import_crash_file: the first of the first 10 raw rows that
\* holds a header string, 0 when there is none (raw rows count from 0)
DetectHeader(top) ==
    LET hits == {i \in 0..(Min(HeaderScanRows, Len(top)) - 1) : top[i + 1]}
    IN  IF hits = {} THEN 0 ELSE CHOOSE i \in hits : \A j \in hits : i <= j

\* 1-indexed spreadsheet row of the data row with DataFrame index idx when
\* the sheet was read with header=header_row
SheetRow(header_row, idx) == header_row + 1 + idx + 1

\* stats["errors"] += 1 plus the message; the row-level checks append always,
\* the except clause only while fewer than ErrorSample messages are kept
\* failed: every failure with the DataFrame index it happened at, kept for
\* stating the properties
RowError(q, what, always) ==
    [q EXCEPT !.errors = @ + 1,
              !.error_messages =
                  IF always \/ Len(@) < ErrorSample
                  THEN Append(@, [n |-> q.idx + 2, kind |-> what])
                  ELSE @,
              !.failed = Append(@, [at |-> q.idx, kind |-> what])]

\* db.add(record); stats["new"] += 1; the commit is due when new % 100 == 0
Stage(q, rec) ==
    [q EXCEPT !.pending = Append(@, rec),
              !.new = @ + 1,
              !.pc = IF (q.new + 1) % CommitEvery = 0 THEN "commit" ELSE "row"]

\* variant: the time check comes before the duplicate query
AfterKeyTimeFirst(q, k, row, table, rec) ==
    IF q.sess = "inactive" THEN RowError(q, "exception", FALSE)
    ELSE LET t == ParseTime(row.tm)
         IN  IF t = ValueError THEN RowError(q, "exception", FALSE)
             ELSE IF t = NoDatetime THEN RowError(q, "time", TRUE)
             ELSE IF Existing(table, k) THEN [q EXCEPT !.skipped = @ + 1]
             ELSE IF rec \in {ValueError, OverflowError}
             THEN RowError(q, "exception", FALSE)
             ELSE Stage(q, rec)

\* the checks after the key of a row is known: duplicate query, time, the
\* optional cells read while the record is built, add
AfterKey(q, k, row, table, rec) ==
    IF q.sess = "inactive" THEN RowError(q, "exception", FALSE)
    ELSE IF Existing(table, k) THEN [q EXCEPT !.skipped = @ + 1]
    ELSE LET t == ParseTime(row.tm)
         IN  IF t = ValueError THEN RowError(q, "exception", FALSE)
             ELSE IF t = NoDatetime THEN RowError(q, "time", TRUE)
             ELSE IF rec \in {ValueError, OverflowError}
             THEN RowError(q, "exception", FALSE)
             ELSE Stage(q, rec)

\* variant: a row of exactly BlankRowCells cells counts as blank
CrashRowLoose(q, row, table) ==
    LET cid == case_id(row)
    IN  IF cid = None
        THEN IF row.ne <= BlankRowCells THEN q ELSE RowError(q, "key", TRUE)
        ELSE AfterKey(q, cid, row, table, NewCrash(cid, row, q.batch_id))

\* body of the for loop of import_crash_file for one row
CrashRow(q, row, table) ==
    LET cid == case_id(row)
    IN  IF cid = None
        THEN IF row.ne < BlankRowCells THEN q ELSE RowError(q, "key", TRUE)
        ELSE AfterKey(q, cid, row, table, NewCrash(cid, row, q.batch_id))

\* body of the for loop of import_ticket_file for one row
TicketRow(q, row, table) ==
    LET tno == ticket_number(row)
    IN  IF tno = ""
        THEN RowError(q, "key", TRUE)
        ELSE AfterKey(q, tno, row, table, NewTicket(tno, row, q.batch_id))

ProcessRow(q, row, table) ==
    IF q.kind = "crash" THEN CrashRow(q, row, table) ELSE TicketRow(q, row, table)

\* variant: the last messages are returned
SampleLast(msgs) ==
    SubSeq(msgs, Len(msgs) - Min(Len(msgs), ErrorSample) + 1, Len(msgs))

\* error_messages[:10]
Sample(msgs) == SubSeq(msgs, 1, Min(Len(msgs), ErrorSample))

---------------------------------------------------------------------------
(* Actions *)

\* no pure function is under evaluation
NoCall == [fn |-> "none", pc |-> "done"]

InitSlots(n) ==
    /\ crashes = {}
    /\ tickets = {}
    /\ req = [r \in 1..n |-> IdleReq]
    /\ rowsRead = 0
    /\ started = 0
    /\ call = NoCall

Init == InitSlots(1)

\* A finished request changes nothing any more, and the release of its slot
\* commutes with every step of the other requests: the others step once it
\* is released.
Released(r) == \A s \in Slots \ {r} : req[s].pc # "done"

\* the slots are interchangeable: a new request takes the first free one
FirstFree(r) == req[r].pc = "idle" /\ \A s \in Slots : s < r => req[s].pc # "idle"

SetTable(kind, t) ==
    IF kind = "crash"
    THEN crashes' = t /\ UNCHANGED tickets
    ELSE tickets' = t /\ UNCHANGED crashes

\* POST /import/crash and /import/ticket up to the start of the row loop:
\* extension check, temporary copy, pd.read_excel, header detection, batch id
\* (the time of the upload).  keep: the rows are remembered, for the file is
\* uploaded again later.
Start(r, kind, keep, limit) ==
    /\ FirstFree(r)
    /\ Released(r)
    /\ started < limit
    /\ started' = started + 1
    /\ \E ext \in {".xlsx", ".csv"}, readable \in BOOLEAN,
          titles \in 0..MaxTitles :
          /\ kind = "ticket" => titles = 0
          /\ ext = ".csv" => readable /\ titles = 0
          /\ ~readable => titles = 0
          /\ req' = [req EXCEPT ![r] =
                IF ext \notin {".xlsx", ".xls"}
                THEN [IdleReq EXCEPT !.kind = kind, !.pc = "done", !.resp = "400"]
                ELSE IF ~readable
                THEN [IdleReq EXCEPT !.kind = kind, !.pc = "done", !.resp = "500"]
                ELSE [IdleReq EXCEPT !.kind = kind, !.pc = "row", !.keep = keep,
                                     !.header_row = IF kind = "crash"
                                                    THEN DetectHeader(SheetTop(titles)) ELSE 0,
                                     !.batch_id = started + 1]]
    /\ UNCHANGED <<crashes, tickets, rowsRead>>

\* the file of a completed import is uploaded once more
StartAgain(r) ==
    /\ req[r].pc = "done"
    /\ Released(r)
    /\ req[r].resp = "ok"
    /\ req[r].keep
    /\ req[r].lazy
    /\ started < MaxUploads
    /\ started' = started + 1
    /\ req' = [req EXCEPT ![r] =
          [IdleReq EXCEPT !.kind = req[r].kind, !.pc = "row",
                          !.file = req[r].file, !.lazy = FALSE, !.keep = TRUE,
                          !.header_row = req[r].header_row,
                          !.batch_id = started + 1, !.rerun = TRUE,
                          !.first = req[r].durable,
                          !.count0 = Cardinality(TableOf(req[r].kind))]]
    /\ UNCHANGED <<crashes, tickets, rowsRead>>

\* one iteration of the row loop, up to the commit check
Row(r, budget) ==
    /\ req[r].pc = "row"
    /\ Released(r)
    /\ LET q == req[r]
           step(row) == [ProcessRow(q, row, TableOf(q.kind))
                           EXCEPT !.idx = @ + 1, !.row = row]
       IN  IF q.lazy
           THEN /\ rowsRead < budget
                /\ rowsRead' = rowsRead + 1
                /\ \E row \in RowsOf(q.kind) :
                      req' = [req EXCEPT ![r] =
                                [step(row) EXCEPT !.file =
                                    IF q.keep THEN Append(@, row) ELSE @]]
           ELSE /\ q.idx < Len(q.file)
                /\ req' = [req EXCEPT ![r] = step(q.file[q.idx + 1])]
                /\ UNCHANGED rowsRead
    /\ UNCHANGED <<crashes, tickets, started>>

\* db.commit() inside the row's try block
Commit(r) ==
    /\ req[r].pc = "commit"
    /\ Released(r)
    /\ LET q == req[r]
           t == TableOf(q.kind)
           t2 == Flush(q.pending, t)
       IN  IF t2.raised # None
           THEN /\ req' = [req EXCEPT ![r] =
                     [RowError([q EXCEPT !.idx = @ - 1], "exception", FALSE)
                        EXCEPT !.idx = q.idx, !.pc = "row",
                               !.pending = <<>>, !.sess = "inactive"]]
                /\ UNCHANGED <<crashes, tickets>>
           ELSE /\ SetTable(q.kind, t2.table)
                /\ req' = [req EXCEPT ![r] =
                     [q EXCEPT !.pc = "row", !.pending = <<>>,
                               !.durable = @ + Len(q.pending)]]
    /\ UNCHANGED <<rowsRead, started>>

\* after the last row: db.commit(), the summary counts, the response
Final(r) ==
    /\ req[r].pc = "row"
    /\ Released(r)
    /\ ~req[r].lazy => req[r].idx = Len(req[r].file)
    /\ LET q == req[r]
           t == TableOf(q.kind)
           t2 == IF q.sess = "inactive"
                 THEN [raised |-> "PendingRollbackError", table |-> t]
                 ELSE Flush(q.pending, t)
       IN  IF t2.raised # None
           THEN /\ req' = [req EXCEPT ![r] =
                     [q EXCEPT !.pc = "done", !.resp = "500",
                               !.pending = <<>>, !.sess = "inactive"]]
                /\ UNCHANGED <<crashes, tickets>>
           ELSE /\ SetTable(q.kind, t2.table)
                /\ req' = [req EXCEPT ![r] =
                     [q EXCEPT !.pc = "done", !.resp = "ok",
                               !.pending = <<>>,
                               !.durable = @ + Len(q.pending),
                               !.returned = Sample(q.error_messages),
                               !.db_total = Cardinality(t2.table)]]
    /\ UNCHANGED <<rowsRead, started>>

\* get_db: db.close() once the response is out
Close(r) ==
    /\ req[r].pc = "done"
    /\ req' = [req EXCEPT ![r] = IdleReq]
    /\ UNCHANGED <<crashes, tickets, rowsRead, started>>

\* POST /admin/reset-database: drop_all, create_all
Reset ==
    /\ crashes' = {}
    /\ tickets' = {}
    /\ UNCHANGED <<req, rowsRead, started>>

\* GET /import/status: counts only
GetStatus(r) ==
    /\ FirstFree(r)
    /\ Released(r)
    /\ req' = [req EXCEPT ![r] =
          [IdleReq EXCEPT !.kind = "status", !.pc = "done", !.resp = "ok",
                          !.db_total = Cardinality(crashes) + Cardinality(tickets)]]
    /\ UNCHANGED <<crashes, tickets, rowsRead, started>>

Next ==
    \/ \E r \in Slots : Start(r, "crash", FALSE, MaxImports) /\ UNCHANGED call
    \/ \E r \in Slots : Start(r, "ticket", FALSE, MaxImports) /\ UNCHANGED call
    \/ \E r \in Slots : Row(r, MaxRows) /\ UNCHANGED call
    \/ \E r \in Slots : Commit(r) /\ UNCHANGED call
    \/ \E r \in Slots : Final(r) /\ UNCHANGED call
    \/ \E r \in Slots : Close(r) /\ UNCHANGED call
    \/ \E r \in Slots : GetStatus(r) /\ UNCHANGED call
    \/ Reset /\ UNCHANGED call

Spec == Init /\ [][Next]_vars

\* two worker processes
InitRace == InitSlots(2)

NextRace ==
    \/ \E r \in Slots : Start(r, "crash", FALSE, MaxImports) /\ UNCHANGED call
    \/ \E r \in Slots : Start(r, "ticket", FALSE, MaxImports) /\ UNCHANGED call
    \/ \E r \in Slots : Row(r, MaxRaceRows) /\ UNCHANGED call
    \/ \E r \in Slots : Commit(r) /\ UNCHANGED call
    \/ \E r \in Slots : Final(r) /\ UNCHANGED call
    \/ \E r \in Slots : Close(r) /\ UNCHANGED call
    \/ \E r \in Slots : GetStatus(r) /\ UNCHANGED call
    \/ Reset /\ UNCHANGED call

SpecRace == InitRace /\ [][NextRace]_vars

\* one client uploads a file and, once it is answered, the same file again
InitTwice == InitSlots(1)

NextTwice ==
    \/ \E r \in Slots : Start(r, "crash", TRUE, MaxUploads) /\ UNCHANGED call
    \/ \E r \in Slots : Start(r, "ticket", TRUE, MaxUploads) /\ UNCHANGED call
    \/ \E r \in Slots : StartAgain(r) /\ UNCHANGED call
    \/ \E r \in Slots : Row(r, MaxKept) /\ UNCHANGED call
    \/ \E r \in Slots : Commit(r) /\ UNCHANGED call
    \/ \E r \in Slots : Final(r) /\ UNCHANGED call
    \/ \E r \in Slots : Close(r) /\ UNCHANGED call

SpecTwice == InitTwice /\ [][NextTwice]_vars

---------------------------------------------------------------------------
(* Properties *)

IsImport(q) == q.kind \in {"crash", "ticket"}

\* the sheet was read and the row loop entered
WasRead(q) == IsImport(q) /\ q.batch_id # 0

HasKey(kind, row) ==
    IF kind = "crash" THEN case_id(row) # None ELSE ticket_number(row) # ""

KeyOfRow(kind, row) ==
    IF kind = "crash" THEN case_id(row) ELSE ticket_number(row)

\* number of rows of the kept file whose key is in the table
StoredRows(q, table) ==
    Cardinality({i \in 1..Len(q.file) :
        HasKey(q.kind, q.file[i]) /\ Existing(table, KeyOfRow(q.kind, q.file[i]))})

\* request r has just handled a row
RowStep(r) == req[r].pc = "row" /\ req'[r].idx = req[r].idx + 1

\* C1 as stated: the second import of a file reports new = 0 and as many
\* skipped rows as the first import persisted, and stores nothing
C1_Original ==
    \A r \in Slots :
        (req[r].rerun /\ req[r].pc = "done") =>
            /\ req[r].resp = "ok"
            /\ req[r].new = 0
            /\ req[r].skipped = req[r].first
            /\ Cardinality(TableOf(req[r].kind)) = req[r].count0

\* C1 amended: after a successful import of a file the second import of it
\* succeeds, reports new = 0, skips every row whose key is stored (at least
\* as many rows as the first import persisted) and leaves the number of
\* stored records unchanged
C1_Idempotent ==
    \A r \in Slots :
        (req[r].rerun /\ req[r].pc = "done") =>
            /\ req[r].resp = "ok"
            /\ req[r].new = 0
            /\ req[r].skipped = StoredRows(req[r], TableOf(req[r].kind))
            /\ req[r].skipped >= req[r].first
            /\ Cardinality(TableOf(req[r].kind)) = req[r].count0

C1_Witness ==
    \E r \in Slots :
        /\ req[r].rerun /\ req[r].pc = "done"
        /\ req[r].first > 0
        /\ req[r].skipped > req[r].first

\* C2: no two stored crashes share a case_id, no two stored tickets share a
\* ticket_number
C2_UniqueKeys ==
    /\ \A c, d \in crashes : c.key = d.key => c = d
    /\ \A c, d \in tickets : c.key = d.key => c = d

\* two imports staged the same new key; one committed it, the other failed
C2_Witness ==
    \E r \in Slots :
        /\ WasRead(req[r]) /\ req[r].resp = "500" /\ req[r].new > 0
        /\ \E c \in TableOf(req[r].kind) :
              c.key = KeyOfRow(req[r].kind, req[r].row)
              /\ c.import_batch_id # req[r].batch_id

\* C3 as stated: a crash file that holds one new case identifier on two
\* valid rows is answered with the summary, one record is stored for the
\* identifier and the later row is counted as skipped
C3_DuplicateInFile ==
    \A r \in Slots :
        LET q == req[r]
        IN  ( /\ q.kind = "crash" /\ q.pc = "done" /\ started = 1
              /\ Len(q.file) = 2
              /\ case_id(q.file[1]) # None
              /\ case_id(q.file[1]) = case_id(q.file[2])
              /\ ParseTime(q.file[1].tm).kind = "datetime"
              /\ ParseTime(q.file[2].tm).kind = "datetime" )
            => /\ q.resp = "ok"
               /\ Cardinality({c \in crashes : c.key = case_id(q.file[1])}) = 1
               /\ q.new = 1 /\ q.skipped = 1 /\ q.errors = 0

\* C4 as stated: every import of a readable sheet ends with the summary
C4_AlwaysSummary ==
    \A r \in Slots :
        (WasRead(req[r]) /\ req[r].pc = "done") => req[r].resp = "ok"

\* C5 as stated: an import answered with an error has persisted nothing
C5_NoPartialImport ==
    \A r \in Slots :
        (IsImport(req[r]) /\ req[r].resp \in {"400", "500"}) => req[r].durable = 0

\* C6: a step that is not the reset keeps every stored record as it is
C6_AppendOnly ==
    [][Reset \/ (crashes \subseteq crashes' /\ tickets \subseteq tickets')]_vars

\* a row with a stored key and other contents was skipped; the stored
\* record is the one of the earlier import
C6_Witness ==
    \E r \in Slots :
        /\ req[r].kind = "crash" /\ req[r].pc = "done" /\ req[r].resp = "ok"
        /\ req[r].idx = 1 /\ req[r].skipped = 1
        /\ \E c \in crashes :
              /\ c.key = case_id(req[r].row)
              /\ c.dat # Severity(req[r].row.dat)
              /\ c.import_batch_id # req[r].batch_id

C8_MissingTicketNumber ==
    [][\A r \in Slots :
        (RowStep(r) /\ req[r].kind = "ticket" /\ req'[r].row.id \in {NaN, " "}) =>
            /\ req'[r].new = req[r].new
            /\ req'[r].skipped = req[r].skipped
            /\ req'[r].pending = req[r].pending]_vars

\* C9: the summary returns the messages of the first min(10, errors)
\* failures, in row order
C9_ErrorSample ==
    \A r \in Slots :
        LET q == req[r]
        IN  (IsImport(q) /\ q.pc = "done" /\ q.resp = "ok") =>
                /\ Len(q.failed) = q.errors
                /\ Len(q.returned) = Min(ErrorSample, q.errors)
                /\ \A i \in 1..Len(q.returned) :
                      /\ q.returned[i].kind = q.failed[i].kind
                      /\ q.returned[i].n = q.failed[i].at + 2

\* more failures than the sample holds, of all three kinds
C9_Witness ==
    \E r \in Slots :
        LET q == req[r]
        IN  /\ IsImport(q) /\ q.pc = "done" /\ q.resp = "ok"
            /\ q.errors > ErrorSample
            /\ {q.failed[i].kind : i \in 1..Len(q.failed)} = {"key", "time", "exception"}

\* C10 as stated: a returned message names the spreadsheet row of the
\* failing row
C10_SheetRow ==
    \A r \in Slots :
        LET q == req[r]
        IN  (q.kind = "crash" /\ q.pc = "done" /\ q.resp = "ok") =>
                \A i \in 1..Len(q.returned) :
                    q.returned[i].n = SheetRow(q.header_row, q.failed[i].at)

---------------------------------------------------------------------------
(* Reading the sheet: header detection of the two importers *)

MaxSheetRows == 12

\* the store and the requests while a pure function is evaluated
NoImport ==
    /\ crashes = {}
    /\ tickets = {}
    /\ req = <<>>
    /\ rowsRead = 0
    /\ started = 0

\* a sheet, as far as the header goes: for each of its rows, whether the
\* row holds a header cell; at most two rows do
Sheets ==
    UNION {{[i \in 1..n |-> i - 1 \in hits] :
              hits \in {h \in SUBSET (0..(n - 1)) : Cardinality(h) <= 2}} :
           n \in 1..MaxSheetRows}

\* pd.read_excel(path, header=h): row h names the columns, the rows below
\* it are the data rows
read_excel(sheet, h) == [header_row |-> h, first_data |-> h + 1, total |-> Len(sheet) - (h + 1)]

InitHeader ==
    /\ NoImport
    /\ call \in {[fn |-> "read", pc |-> "call", kind |-> k, sheet |-> sh, df |-> read_excel(sh, 0)] :
                    k \in {"crash", "ticket"}, sh \in Sheets}

\* import_crash_file: the header row is looked for, then the sheet is read
ReadCrashSheet ==
    /\ call.pc = "call" /\ call.fn = "read" /\ call.kind = "crash"
    /\ call' = [call EXCEPT !.pc = "done", !.df = read_excel(call.sheet, DetectHeader(call.sheet))]
    /\ UNCHANGED <<crashes, tickets, req, rowsRead, started>>

\* import_ticket_file: the sheet is read with the default header
ReadTicketSheet ==
    /\ call.pc = "call" /\ call.fn = "read" /\ call.kind = "ticket"
    /\ call' = [call EXCEPT !.pc = "done", !.df = read_excel(call.sheet, 0)]
    /\ UNCHANGED <<crashes, tickets, req, rowsRead, started>>

NextHeader == ReadCrashSheet \/ ReadTicketSheet

SpecHeader == InitHeader /\ [][NextHeader]_vars

\* rows of the sheet's first 10 that hold a header cell
HeaderHits(sheet) == {i \in 0..(Len(sheet) - 1) : i < 10 /\ sheet[i + 1]}

\* C11 as stated: in both importers the header row is the first of the
\* sheet's first 10 rows that holds an accepted header cell, row 0 when
\* there is none, and the data rows are the rows below it
C11_HeaderDetection ==
    (call.fn = "read" /\ call.pc = "done") =>
        /\ IF HeaderHits(call.sheet) = {}
           THEN call.df.header_row = 0
           ELSE /\ call.df.header_row \in HeaderHits(call.sheet)
                /\ \A i \in HeaderHits(call.sheet) : call.df.header_row <= i
        /\ call.df.first_data = call.df.header_row + 1

---------------------------------------------------------------------------
(* Severity of the stored crashes *)

Categories == {"A1", "A2", "A3"}

CategoryWeight(c) == IF c = "A1" THEN 5 ELSE IF c = "A2" THEN 3 ELSE 1

\* the category cell names none of the three categories
NoCategory(cell) == cell = NaN \/ Upper(Strip(Str(cell))) \notin Categories

\* C12: every stored crash has a severity of A1, A2, A3 with weight 5, 3,
\* 1, and a row whose category cell is empty or, trimmed and upper-cased,
\* none of the three is staged as A3 with weight 1
C12_Severity ==
    /\ [](\A c \in crashes :
            c.severity \in Categories /\ c.severity_weight = CategoryWeight(c.severity))
    /\ [][\A r \in Slots :
            (RowStep(r) /\ req[r].kind = "crash"
                /\ Len(req'[r].pending) = Len(req[r].pending) + 1) =>
                LET c == req'[r].pending[Len(req'[r].pending)]
                IN  /\ c.severity \in Categories
                    /\ c.severity_weight = CategoryWeight(c.severity)
                    /\ NoCategory(req'[r].row.dat) =>
                          (c.severity = "A3" /\ c.severity_weight = 1)]_vars

\* a lower-case padded A2, an empty cell and an unknown category are stored
C12_Witness ==
    /\ \E c \in crashes : c.key = "K2" /\ c.severity = "A2" /\ c.severity_weight = 3
    /\ \E c \in crashes : c.key = "K3" /\ c.severity = "A3"
    /\ \E c \in crashes : c.key = "K1" /\ c.severity = "A3" /\ c.severity_weight = 1

---------------------------------------------------------------------------
(* Text: strings as sequences of characters, and the regular expressions  *)
(* of deidentify_address.  A character is written with one ASCII letter:  *)
(*   "9" a digit          "x", "y" CJK ideographs with no role            *)
(*   "H" the house-number ideograph (hao)    "L" the neighbourhood one (li)*)
(*   "Q" the district one (qu)               "R" a road ideograph (lu)     *)
(*   "A" the alley ideograph (xiang)         "E" the ideograph "east"      *)
(*   "T" "N" "S" the three ideographs of the city name (tai, in either of  *)
(*       its two spellings, nan, shi)                                      *)
(*   "W" the ideograph "and" (yu)            "K" the ideograph "mouth"     *)
(*   "Z" the ideograph "of" (zhi)            "B" an ideograph "beside"     *)
(*   "?" an ideograph of the word "unknown"  "a" the ideograph "peace" (an) *)
(*   "/" a separator of an intersection      "-" a hyphen    " " a blank   *)

Digits == {"9"}
CJK == {"x", "y", "H", "L", "Q", "R", "A", "E", "T", "N", "S", "W", "K", "Z", "B", "?", "a"}
RoadOrAlley == {"R", "A"}    \* class of the single-road pattern
RoadOnly == {"R"}            \* class of the intersection pattern

\* length of the match of k to hi CJK characters followed by character c
\* that starts at position i, the longest repetition first; 0 without match
RECURSIVE CJKThen(_, _, _, _, _)
CJKThen(s, i, k, lo, c) ==
    IF k < lo THEN 0
    ELSE IF Run(s, i, CJK) >= k /\ At(s, i + k) = c THEN k + 1
    ELSE CJKThen(s, i, k - 1, lo, c)

\* length of the match of  \d+[-zhi]?\d*H[qian hou pang]?  at position i
HouseNumberAt(s, i) ==
    LET r == Run(s, i, Digits)
        p == i + r
        r2 == Run(s, p + 1, Digits)
        n == IF r = 0 THEN 0
             ELSE IF At(s, p) = "H" THEN r + 1
             ELSE IF At(s, p) \in {"-", "Z"} /\ At(s, p + 1 + r2) = "H" THEN r + 1 + r2 + 1
             ELSE 0
    IN  IF n > 0 /\ At(s, i + n) = "B" THEN n + 1 ELSE n

\* length of the match of a pattern at position i of s, 0 without match
MatchAt(pat, s, i) ==
    CASE pat = "house" -> HouseNumberAt(s, i)
      [] pat = "li" -> CJKThen(s, i, 4, 2, "L")
      [] pat = "city" -> IF At(s, i) = "T" /\ At(s, i + 1) = "N" /\ At(s, i + 2) = "S"
                         THEN 3 ELSE 0
      [] pat = "district" -> CJKThen(s, i, 3, 2, "Q")

\* re.sub(pat, "", s): the matches are taken from the left, without overlap
RECURSIVE SubFrom(_, _, _)
SubFrom(pat, s, i) ==
    IF i > Len(s) THEN <<>>
    ELSE LET n == MatchAt(pat, s, i)
         IN  IF n > 0 THEN SubFrom(pat, s, i + n)
             ELSE <<s[i]>> \o SubFrom(pat, s, i + 1)

Sub(pat, s) == SubFrom(pat, s, 1)

\* re.search(pat, s): the leftmost match, None without match
RECURSIVE SearchFrom(_, _, _)
SearchFrom(pat, s, i) ==
    IF i > Len(s) THEN None
    ELSE LET n == MatchAt(pat, s, i)
         IN  IF n > 0 THEN SubSeq(s, i, i + n - 1) ELSE SearchFrom(pat, s, i + 1)

\* position of the last character of class cls among s[i+1 .. e], 0 if none
RECURSIVE LastOf(_, _, _, _)
LastOf(s, i, e, cls) ==
    IF e <= i THEN 0
    ELSE IF s[e] \in cls THEN e
    ELSE LastOf(s, i, e - 1, cls)

\* re.search of  [CJK]+[cls] : one or more CJK characters, as many as
\* possible, followed by a character of cls (itself a CJK character)
RECURSIVE SearchRoad(_, _, _)
SearchRoad(s, i, cls) ==
    IF i > Len(s) THEN None
    ELSE LET j == LastOf(s, i, i + Run(s, i, CJK) - 1, cls)
         IN  IF j > 0 THEN SubSeq(s, i, j) ELSE SearchRoad(s, i + 1, cls)

\* re.split of s at the separators
RECURSIVE Split(_, _)
Split(s, cur) ==
    IF s = <<>> THEN <<cur>>
    ELSE IF Head(s) = "/" THEN <<cur>> \o Split(Tail(s), <<>>)
    ELSE Split(Tail(s), Append(cur, Head(s)))

---------------------------------------------------------------------------
(* deidentify_address *)

DescLimit == 100

Unknown == <<"?", "?">>                  \* the two-ideograph word "unknown"
UnknownPlace == <<"?", "?", "?", "?">>   \* the word "unknown place"

\* the roads of the separator-split parts of the address
RECURSIVE Roads(_)
Roads(parts) ==
    IF parts = <<>> THEN <<>>
    ELSE LET road_match == SearchRoad(Head(parts), 1, RoadOnly)
         IN  (IF road_match # None THEN <<road_match>> ELSE <<>>) \o Roads(Tail(parts))

\* deidentify_address(address): (district, location description)
deidentify_address(address) ==
    IF address = <<>> THEN <<Unknown, UnknownPlace>>   \* missing or empty
    ELSE
    LET addr == StripText(address)
        district_match == SearchFrom("district", addr, 1)
        district == IF district_match # None THEN district_match ELSE Unknown
        clean_address == Sub("district", Sub("city", Sub("li", Sub("house", addr))))
        road_match == SearchRoad(clean_address, 1, RoadOrAlley)
        single == IF road_match # None THEN road_match
                  ELSE IF StripText(clean_address) # <<>> THEN StripText(clean_address)
                  ELSE UnknownPlace
        roads == Roads(Split(addr, <<>>))
        location_desc == IF "/" \in SeqRange(addr) /\ Len(roads) >= 2
                         THEN roads[1] \o <<"W">> \o roads[2] \o <<"R", "K">>
                         ELSE single
    IN  <<district, SubSeq(location_desc, 1, Min(Len(location_desc), DescLimit))>>

MaxParts == 4

\* pieces an address is written with: a number, the house-number ideograph,
\* a neighbourhood, a district, a road, a separator, one ideograph, the city
\* name, a blank
Pieces ==
    {<<"9">>, <<"H">>, <<"x", "x", "L">>, <<"x", "x", "Q">>, <<"x", "R">>,
     <<"/">>, <<"x">>, <<"T", "N", "S">>, <<" ">>}

RECURSIVE Concat(_)
Concat(ps) == IF ps = <<>> THEN <<>> ELSE Head(ps) \o Concat(Tail(ps))

Addresses == {Concat(ps) : ps \in UNION {[1..n -> Pieces] : n \in 0..MaxParts}}

InitAddress ==
    /\ NoImport
    /\ call \in {[fn |-> "deidentify_address", pc |-> "call", address |-> a,
                  out |-> <<Unknown, UnknownPlace>>] : a \in Addresses}

Deidentify ==
    /\ call.pc = "call" /\ call.fn = "deidentify_address"
    /\ call' = [call EXCEPT !.pc = "done", !.out = deidentify_address(call.address)]
    /\ UNCHANGED <<crashes, tickets, req, rowsRead, started>>

NextAddress == Deidentify

SpecAddress == InitAddress /\ [][NextAddress]_vars

\* the text holds a digit followed by the house-number ideograph
HasHouseNumber(s) == \E i \in 1..Len(s) : s[i] \in Digits /\ At(s, i + 1) = "H"

\* the text holds 2 to 4 CJK characters followed by the neighbourhood ideograph
HasNeighbourhood(s) ==
    \E i \in 1..Len(s) : s[i] \in CJK /\ At(s, i + 1) \in CJK /\ At(s, i + 2) = "L"

\* C14 as stated: the location description of no address holds a digit
\* sequence followed by the house-number ideograph
C14_NoHouseNumber ==
    (call.fn = "deidentify_address" /\ call.pc = "done") => ~HasHouseNumber(call.out[2])

\* C15 as stated: the location description of no address holds a
\* neighbourhood token
C15_NoNeighbourhood ==
    (call.fn = "deidentify_address" /\ call.pc = "done") => ~HasNeighbourhood(call.out[2])

---------------------------------------------------------------------------
(* Coordinates of a crash: the cells of the row, else the district centre *)
(* Degrees are counted in units of 0.0001.                                *)

Jitter == 30    \* random.uniform(-0.003, 0.003)

\* DISTRICT_COORDINATES, in the order of the dictionary, cut down to the
\* districts Xinhua ("xxQ"), East ("EQ"), South ("NQ") and Annan ("aNQ")
DISTRICT_COORDINATES ==
    <<[name |-> <<"x", "x", "Q">>, lat |-> 230386, lng |-> 1203108],
      [name |-> <<"E", "Q">>, lat |-> 229833, lng |-> 1202167],
      [name |-> <<"N", "Q">>, lat |-> 229500, lng |-> 1201833],
      [name |-> <<"a", "N", "Q">>, lat |-> 230500, lng |-> 1201667]>>

\* a in b, for two texts
IsInfix(a, b) == \E i \in 1..(Len(b) - Len(a) + 1) : SubSeq(b, i, i + Len(a) - 1) = a

\* the entry get_district_coordinates takes for a district, <<>> if none:
\* the entry of that name, else the first entry whose name is part of the
\* district's or holds it
LookupDistrict(district) ==
    LET without_city == Sub("city", district)
        clean_district == IF At(without_city, 1) = "S" THEN Tail(without_city) ELSE without_city
        direct == {k \in DOMAIN DISTRICT_COORDINATES : DISTRICT_COORDINATES[k].name = clean_district}
        partial == {k \in DOMAIN DISTRICT_COORDINATES :
                       \/ IsInfix(DISTRICT_COORDINATES[k].name, clean_district)
                       \/ IsInfix(clean_district, DISTRICT_COORDINATES[k].name)}
        first(ks) == CHOOSE k \in ks : \A j \in ks : k <= j
    IN  IF district = <<>> THEN <<>>
        ELSE IF direct # {} THEN <<DISTRICT_COORDINATES[first(direct)]>>
        ELSE IF partial # {} THEN <<DISTRICT_COORDINATES[first(partial)]>>
        ELSE <<>>

\* get_district_coordinates(district) with the two offsets it drew: a pair
\* of one-element sequences, or of empty ones for (None, None)
get_district_coordinates(district, offset_lat, offset_lng) ==
    LET e == LookupDistrict(district)
    IN  IF e = <<>> THEN <<<<>>, <<>>>>
        ELSE <<<<e[1].lat + offset_lat>>, <<e[1].lng + offset_lng>>>>

\* addresses of crash rows: with city and district, without city, with the
\* city written without its last ideograph, with an unlisted district,
\* without district, missing
CoordAddresses ==
    {<<"T", "N", "S", "x", "x", "Q", "x", "R">>,
     <<"x", "x", "Q", "x", "R">>,
     <<"T", "N", "S", "E", "Q", "x", "R">>,
     <<"E", "Q", "x", "R">>,
     <<"T", "N", "S", "a", "N", "Q", "x", "R">>,
     <<"T", "N", "a", "N", "Q", "x", "R">>,
     <<"y", "y", "Q", "x", "R">>,
     <<"x", "R">>,
     <<>>}

\* a coordinate cell: empty, or a number
CoordCells == {<<>>, <<229990>>}

InitCoord ==
    /\ NoImport
    /\ call \in {[fn |-> "coordinates", pc |-> "call", address |-> a,
                  lat_cell |-> la, lng_cell |-> lo, latitude |-> <<>>, longitude |-> <<>>] :
                    a \in CoordAddresses, la \in CoordCells, lo \in CoordCells}

\* the latitude and longitude arguments of Crash(...): each takes its cell
\* or, when the cell is empty, a call of its own of get_district_coordinates;
\* o1 is the latitude offset of the first call, o2 the longitude offset of
\* the second, the other offset of either call is dropped with its result
Locate ==
    /\ call.pc = "call" /\ call.fn = "coordinates"
    /\ \E o1, o2 \in (-Jitter)..Jitter :
         LET district == deidentify_address(call.address)[1]
         IN  call' = [call EXCEPT
                 !.pc = "done",
                 !.latitude = IF call.lat_cell # <<>> THEN call.lat_cell
                              ELSE get_district_coordinates(district, o1, 0)[1],
                 !.longitude = IF call.lng_cell # <<>> THEN call.lng_cell
                               ELSE get_district_coordinates(district, 0, o2)[2]]
    /\ UNCHANGED <<crashes, tickets, req, rowsRead, started>>

NextCoord == Locate

SpecCoord == InitCoord /\ [][NextCoord]_vars

IsSuffix(a, b) == Len(a) <= Len(b) /\ SubSeq(b, Len(b) - Len(a) + 1, Len(b)) = a

\* the entries of the table that a parsed district names: those whose name
\* the district ends with and that no longer such name extends
NamedEntries(district) ==
    {k \in DOMAIN DISTRICT_COORDINATES :
        /\ IsSuffix(DISTRICT_COORDINATES[k].name, district)
        /\ \A j \in DOMAIN DISTRICT_COORDINATES :
              IsSuffix(DISTRICT_COORDINATES[j].name, district)
                 => Len(DISTRICT_COORDINATES[j].name) <= Len(DISTRICT_COORDINATES[k].name)}

Near(v, centre) == v # <<>> /\ v[1] - centre <= 30 /\ centre - v[1] <= 30

\* C13 as stated: without coordinate cells the stored latitude and
\* longitude lie within 0.003 degrees of the centre of the district parsed
\* from the address, both are null when that district is not in the table,
\* and a row with both cells keeps them
C13_Coordinates ==
    (call.fn = "coordinates" /\ call.pc = "done") =>
        LET named == NamedEntries(deidentify_address(call.address)[1])
        IN  /\ (call.lat_cell = <<>> /\ call.lng_cell = <<>> /\ named = {}) =>
                  (call.latitude = <<>> /\ call.longitude = <<>>)
            /\ (call.lat_cell = <<>> /\ call.lng_cell = <<>> /\ named # {}) =>
                  \A k \in named :
                      /\ Near(call.latitude, DISTRICT_COORDINATES[k].lat)
                      /\ Near(call.longitude, DISTRICT_COORDINATES[k].lng)
            /\ (call.lat_cell # <<>> /\ call.lng_cell # <<>>) =>
                  (call.latitude = call.lat_cell /\ call.longitude = call.lng_cell)

---------------------------------------------------------------------------
(* classify_violation_topic                                                *)
(* A violation text is a sequence of units: a clause number such as "3501" *)
(* (four digits), a further digit "0", a blank " ", or a word; the         *)
(* keywords of TOPIC_RULES are written in pinyin.                          *)

MaxUnits == 3

TOPIC_RULES ==
    [DUI |-> [prefixes |-> {"3501", "3503", "3504", "7302", "7303"},
              codes |-> {},
              keywords |-> {"jiujing", "jiujia", "jiuce", "xishidupin"}],
     RED_LIGHT |-> [prefixes |-> {"5301", "5302"},
                    codes |-> {"6002030060", "6002030110"},
                    keywords |-> {"chuanghongdeng", "hongdengyuexian", "hongdengyouzhuan",
                                  "hongdengzuozhuan", "hongdenghuizhuan"}],
     DANGEROUS_DRIVING |-> [prefixes |-> {"4000", "4301", "4304"},
                            codes |-> {"6201", "6203", "6204", "4501030010", "4501030020"},
                            keywords |-> {"chaosu", "weixianjiashi", "biche", "zhaoshitaoyi"}]]

\* code.startswith(p), p one of the clause numbers of the rules
StartsWith(code, p) == At(code, 1) = p

\* keyword in name
Contains(name, keyword) == keyword \in SeqRange(name)

Topic(rule, code, name) ==
    \/ \E p \in rule.prefixes \cup rule.codes : StartsWith(code, p)
    \/ \E k \in rule.keywords : Contains(name, k)

\* classify_violation_topic(code, name); an argument is <<>> for a null
\* value and <<text>> for a string
classify_violation_topic(code, name) ==
    IF code = <<>> THEN [dui |-> FALSE, red_light |-> FALSE, dangerous |-> FALSE]
    ELSE LET c == StripText(code[1])
             n == IF name # <<>> THEN name[1] ELSE <<>>
         IN  [dui |-> Topic(TOPIC_RULES.DUI, c, n),
              red_light |-> Topic(TOPIC_RULES.RED_LIGHT, c, n),
              dangerous |-> Topic(TOPIC_RULES.DANGEROUS_DRIVING, c, n)]

\* text.split(" ", 1)
SplitOnce(text) ==
    LET blanks == {k \in 1..Len(text) : text[k] = " "}
        b == CHOOSE k \in blanks : \A j \in blanks : k <= j
    IN  IF blanks = {} THEN <<text>>
        ELSE <<SubSeq(text, 1, b - 1), SubSeq(text, b + 1, Len(text))>>

Units == {"3501", "5301", "6201", "0", " ", "jiujia", "chaosu", "w"}

Texts == UNION {[1..n -> Units] : n \in 0..MaxUnits}

NoTopics == [code |-> <<>>, name |-> <<>>,
             flags |-> [dui |-> FALSE, red_light |-> FALSE, dangerous |-> FALSE]]

InitTopic ==
    /\ NoImport
    /\ call \in {[fn |-> "topics", pc |-> "call", cell |-> c, out |-> NoTopics] :
                    c \in {<<>>} \cup {<<t>> : t \in Texts}}
            \cup {[fn |-> "classify_violation_topic", pc |-> "call", code |-> c, name |-> n,
                   out |-> NoTopics] :
                    c \in {<<>>, <<<<>>>>, <<<<" ">>>>, <<<<"3501", "0">>>>},
                    n \in {<<>>} \cup {<<t>> : t \in Texts}}

\* import_ticket_file: code and name of the violation cell, and the topics
ClassifyRow ==
    /\ call.pc = "call" /\ call.fn = "topics"
    /\ LET violation_full == IF call.cell # <<>> THEN call.cell[1] ELSE <<>>
           parts == SplitOnce(violation_full)
           violation_code == parts[1]
           violation_name == IF Len(parts) > 1 THEN parts[2] ELSE <<>>
       IN  call' = [call EXCEPT !.pc = "done",
                       !.out = [code |-> <<violation_code>>, name |-> <<violation_name>>,
                                flags |-> classify_violation_topic(<<violation_code>>,
                                                                   <<violation_name>>)]]
    /\ UNCHANGED <<crashes, tickets, req, rowsRead, started>>

\* a call of classify_violation_topic
Classify ==
    /\ call.pc = "call" /\ call.fn = "classify_violation_topic"
    /\ call' = [call EXCEPT !.pc = "done",
                   !.out = [code |-> call.code, name |-> call.name,
                            flags |-> classify_violation_topic(call.code, call.name)]]
    /\ UNCHANGED <<crashes, tickets, req, rowsRead, started>>

NextTopic == ClassifyRow \/ Classify

SpecTopic == InitTopic /\ [][NextTopic]_vars

\* C16 as stated: with a null or an empty code all three flags are false,
\* whatever the name
C16_EmptyCode ==
    (call.fn \in {"topics", "classify_violation_topic"} /\ call.pc = "done"
        /\ call.out.code \in {<<>>, <<<<>>>>}) =>
        (~call.out.flags.dui /\ ~call.out.flags.red_light /\ ~call.out.flags.dangerous)

---------------------------------------------------------------------------
(* Scores of the recommendation API (recommendations.py)                   *)
(* Indices and scores are counted in thousandths; alpha and beta in tenths.*)

MaxTicketCount == 10
MaxCrashCount == 2

Topics == {"DUI", "RED_LIGHT", "DANGEROUS_DRIVING"}

\* calculate_vpi(ticket_count, theme)
calculate_vpi(ticket_count, theme) ==
    ticket_count * (CASE theme = "DUI" -> 10000
                      [] theme = "RED_LIGHT" -> 2000
                      [] theme = "DANGEROUS_DRIVING" -> 1500
                      [] OTHER -> 1000)

\* calculate_cri(crash_count, a1_count, a2_count)
calculate_cri(crash_count, a1_count, a2_count) ==
    crash_count * 1000 + a1_count * 5000 + a2_count * 2000

\* variant: every topic weighs the two indices evenly
calculate_score_even(vpi, cri, theme) == (5 * vpi + 5 * cri) \div 10

\* calculate_score(vpi, cri, theme)
calculate_score(vpi, cri, theme) ==
    LET weights == CASE theme = "DUI" -> <<6, 4>>
                     [] theme = "RED_LIGHT" -> <<5, 5>>
                     [] theme = "DANGEROUS_DRIVING" -> <<4, 6>>
                     [] OTHER -> <<5, 5>>
    IN  (weights[1] * vpi + weights[2] * cri) \div 10

\* round(x, 2), x in thousandths: to the nearest hundredth, a tie to the
\* even one
round2(x) ==
    LET q == x \div 10
        r == x % 10
    IN  10 * (IF r > 5 \/ (r = 5 /\ q % 2 = 1) THEN q + 1 ELSE q)

InitScore ==
    /\ NoImport
    /\ call \in {[fn |-> "score", pc |-> "call", topic_code |-> t, ticket_count |-> n,
                  crash_count |-> c, a1 |-> a1, a2 |-> a2, vpi |-> 0, cri |-> 0, score |-> 0] :
                    t \in Topics, n \in 0..MaxTicketCount, c \in 0..MaxCrashCount,
                    a1 \in 0..MaxCrashCount, a2 \in 0..MaxCrashCount}
    /\ call.a1 + call.a2 <= call.crash_count

\* get_top5_recommendations: the indices and the score of one district
Score ==
    /\ call.pc = "call" /\ call.fn = "score"
    /\ LET vpi == calculate_vpi(call.ticket_count, call.topic_code)
           cri == calculate_cri(call.crash_count, call.a1, call.a2)
       IN  call' = [call EXCEPT !.pc = "done", !.vpi = vpi, !.cri = cri,
                                !.score = calculate_score(vpi, cri, call.topic_code)]
    /\ UNCHANGED <<crashes, tickets, req, rowsRead, started>>

NextScore == Score

SpecScore == InitScore /\ [][NextScore]_vars

\* the weights of the formula, in tenths: w, alpha, beta
Formula(t) ==
    CASE t = "DUI" -> [w |-> 100, alpha |-> 6, beta |-> 4]
      [] t = "RED_LIGHT" -> [w |-> 20, alpha |-> 5, beta |-> 5]
      [] t = "DANGEROUS_DRIVING" -> [w |-> 15, alpha |-> 4, beta |-> 6]

---------------------------------------------------------------------------
(* get_top5_recommendations: the ranking *)

MaxDistricts == 6
MaxGroupCount == 2
TopN == 5

\* the districts, in some order, and the crashes of each:
\* (crash_count, a1_count, a2_count)
Districts == <<"d1", "d2", "d3", "d4", "d5", "d6", "d7">>

crash_dict(district) ==
    CASE district = "d2" -> <<2, 0, 0>>
      [] district = "d3" -> <<1, 0, 1>>
      [] district = "d5" -> <<2, 1, 0>>
      [] OTHER -> <<0, 0, 0>>

\* recommendations.sort(key=score, reverse=True): a stable sort, entries of
\* equal score keep their order
RECURSIVE InsertDesc(_, _)
InsertDesc(x, sorted) ==
    IF sorted = <<>> THEN <<x>>
    ELSE IF Head(sorted).score >= x.score
         THEN <<Head(sorted)>> \o InsertDesc(x, Tail(sorted))
         ELSE <<x>> \o sorted

\* variant: sorted in ascending order and reversed, entries of equal score
\* change places
RECURSIVE SortReversed(_)
SortReversed(list) ==
    IF list = <<>> THEN <<>>
    ELSE LET x == list[Len(list)]
             rest == SortReversed(SubSeq(list, 1, Len(list) - 1))
             before == {k \in 1..Len(rest) : rest[k].score > x.score}
             n == Cardinality(before)
         IN  SubSeq(rest, 1, n) \o <<x>> \o SubSeq(rest, n + 1, Len(rest))

RECURSIVE SortDesc(_)
SortDesc(list) ==
    IF list = <<>> THEN <<>>
    ELSE InsertDesc(list[Len(list)], SortDesc(SubSeq(list, 1, Len(list) - 1)))

\* the entries built from the groups of the ticket query, a group without
\* district left out
RECURSIVE Recommend(_, _)
Recommend(district_stats, topic_code) ==
    IF district_stats = <<>> THEN <<>>
    ELSE LET g == Head(district_stats)
             c == crash_dict(g.district)
             vpi == calculate_vpi(g.ticket_count, topic_code)
             cri == calculate_cri(c[1], c[2], c[3])
             rest == Recommend(Tail(district_stats), topic_code)
         IN  IF g.district = "" THEN rest
             ELSE <<[rank |-> 0, district |-> g.district,
                     score |-> round2(calculate_score(vpi, cri, topic_code))]>> \o rest

\* the first n entries, ranked
Ranked(list, n) ==
    [k \in 1..Min(n, Len(list)) |-> [list[k] EXCEPT !.rank = k]]

\* the groups of the ticket query: up to MaxDistricts districts, each with
\* 1 to MaxGroupCount tickets, with or without a group of the tickets that
\* have no district
GroupLists ==
    UNION {{(IF blank THEN <<[district |-> "", ticket_count |-> 1]>> ELSE <<>>)
               \o [k \in 1..n |-> [district |-> Districts[k], ticket_count |-> counts[k]]] :
              counts \in [1..n -> 1..MaxGroupCount], blank \in BOOLEAN} :
           n \in 0..MaxDistricts}

InitRank ==
    /\ NoImport
    /\ call \in {[fn |-> "top5", pc |-> "call", topic_code |-> t, district_stats |-> g,
                  recommendations |-> <<>>, total_sites |-> 0] :
                    t \in {"RED_LIGHT", "DANGEROUS_DRIVING"}, g \in GroupLists}

Top5 ==
    /\ call.pc = "call" /\ call.fn = "top5"
    /\ LET recommendations == SortDesc(Recommend(call.district_stats, call.topic_code))
       IN  call' = [call EXCEPT !.pc = "done",
                       !.recommendations = Ranked(recommendations, TopN),
                       !.total_sites = Len(recommendations)]
    /\ UNCHANGED <<crashes, tickets, req, rowsRead, started>>

NextRank == Top5

SpecRank == InitRank /\ [][NextRank]_vars

\* the scored districts of a call, in the order of the aggregation
Scored(c) == Recommend(c.district_stats, c.topic_code)

\* place of a district in the aggregation
PlaceOf(c, district) == CHOOSE k \in 1..Len(Scored(c)) : Scored(c)[k].district = district

\* C18: the list holds min(5, N) entries in non-increasing score order,
\* ranked 1..min(5, N); no district left out scores higher than a listed
\* one; total_sites is N; districts of equal score keep the order of the
\* aggregation
C18_Top5 ==
    (call.fn = "top5" /\ call.pc = "done") =>
        LET all == Scored(call)
            N == Len(all)
            list == call.recommendations
            listed == {list[k].district : k \in 1..Len(list)}
        IN  /\ Len(list) = Min(5, N)
            /\ call.total_sites = N
            /\ \A k \in 1..Len(list) :
                  /\ list[k].rank = k
                  /\ \E j \in 1..N : all[j].district = list[k].district
                                     /\ all[j].score = list[k].score
            /\ \A j, k \in 1..Len(list) : j < k =>
                  /\ list[j].score >= list[k].score
                  /\ list[j].district # list[k].district
                  /\ list[j].score = list[k].score =>
                        PlaceOf(call, list[j].district) < PlaceOf(call, list[k].district)
            /\ \A j \in 1..N : all[j].district \notin listed =>
                  \A k \in 1..Len(list) :
                      /\ all[j].score <= list[k].score
                      /\ all[j].score = list[k].score =>
                            PlaceOf(call, list[k].district) < j

\* more than five districts, two listed ones of equal score and a district
\* left out with the score of the last listed one
C18_Witness ==
    /\ call.fn = "top5" /\ call.pc = "done"
    /\ call.total_sites > 5
    /\ \E j, k \in 1..Len(call.recommendations) :
          j < k /\ call.recommendations[j].score = call.recommendations[k].score
    /\ \E j \in 1..Len(Scored(call)) :
          /\ \A k \in 1..Len(call.recommendations) :
                Scored(call)[j].district # call.recommendations[k].district
          /\ Scored(call)[j].score = call.recommendations[Len(call.recommendations)].score
    /\ \E k \in 1..Len(call.district_stats) : call.district_stats[k].district = ""

---------------------------------------------------------------------------
(* parse_roc_datetime on its own: every text built from the parts below *)

YearTexts ==
    {<<"0", "9">>, <<"1", "1", "3">>, <<"1", "1", "4">>, <<"5">>,
     <<"2", "0", "2", "5">>}
MonthTexts == {<<"1">>, <<"0", "2">>, <<"1", "2">>, <<"1", "3">>}
DayTexts ==
    {<<"8">>, <<"0", "8">>, <<"2", "9">>, <<"3", "1">>, <<"3", "2">>,
     <<"0", "8", "1">>}
SeparatorTexts == {"/", "-", "."}

\* what follows the day: nothing, a time of day written H:MM or H:MM:SS
\* (shape says which, with the numbers written), or something else
TimeTexts ==
    {[text |-> <<>>, shape |-> "date", hour |-> 0, minute |-> 0, second |-> 0],
     [text |-> <<" ", "0", "9", ":", "3", "0">>,
      shape |-> "minutes", hour |-> 9, minute |-> 30, second |-> 0],
     [text |-> <<" ", "9", ":", "0", "5", ":", "0", "7">>,
      shape |-> "seconds", hour |-> 9, minute |-> 5, second |-> 7],
     [text |-> <<" ", " ", "2", "3", ":", "5", "9", ":", "5", "9">>,
      shape |-> "seconds", hour |-> 23, minute |-> 59, second |-> 59],
     [text |-> <<" ", "2", "4", ":", "0", "0">>,
      shape |-> "minutes", hour |-> 24, minute |-> 0, second |-> 0],
     [text |-> <<" ", "0", "9", ":", "6", "0">>,
      shape |-> "minutes", hour |-> 9, minute |-> 60, second |-> 0],
     [text |-> <<" ", "0", "9", ":", "3", "0", ":", "6", "0">>,
      shape |-> "seconds", hour |-> 9, minute |-> 30, second |-> 60],
     [text |-> <<" ", "0", "9", ":", "3">>,
      shape |-> "other", hour |-> 0, minute |-> 0, second |-> 0],
     [text |-> <<" ", "0", "9", ":", "3", "0", ":", "5">>,
      shape |-> "other", hour |-> 0, minute |-> 0, second |-> 0],
     [text |-> <<"x">>,
      shape |-> "other", hour |-> 0, minute |-> 0, second |-> 0]}

Paddings == {<<>>, <<" ">>}

DateParts ==
    [pad : Paddings, year : YearTexts, sep1 : SeparatorTexts,
     month : MonthTexts, sep2 : SeparatorTexts, day : DayTexts,
     time : TimeTexts]

\* the parts of a cell that holds no text built from parts
NoParts ==
    [pad |-> <<>>, year |-> <<>>, sep1 |-> ".", month |-> <<>>, sep2 |-> ".",
     day |-> <<>>, time |-> [text |-> <<>>, shape |-> "other", hour |-> 0,
                             minute |-> 0, second |-> 0]]

TextOf(p) ==
    p.pad \o p.year \o <<p.sep1>> \o p.month \o <<p.sep2>> \o p.day
    \o p.time.text \o p.pad

InitDate ==
    /\ NoImport
    /\ call \in
         {[fn |-> "parse_roc_datetime", pc |-> "call", parts |-> p,
           roc_str |-> <<TextOf(p)>>, out |-> NoDatetime] : p \in DateParts}
         \cup
         {[fn |-> "parse_roc_datetime", pc |-> "call", parts |-> NoParts,
           roc_str |-> r, out |-> NoDatetime] : r \in {<<>>, <<<<>>>>}}

ParseDate ==
    /\ call.fn = "parse_roc_datetime" /\ call.pc = "call"
    /\ call' = [call EXCEPT !.pc = "done",
                            !.out = parse_roc_datetime(call.roc_str)]
    /\ UNCHANGED <<crashes, tickets, req, rowsRead, started>>

NextDate == ParseDate

SpecDate == InitDate /\ [][NextDate]_vars

\* the text of p is of one of the three accepted shapes
IsShape(p) ==
    /\ p # NoParts
    /\ Len(p.year) \in 2..3 /\ Len(p.month) \in 1..2 /\ Len(p.day) \in 1..2
    /\ p.sep1 \in DateSeparators /\ p.sep2 \in DateSeparators
    /\ p.time.shape \in {"date", "minutes", "seconds"}

OffsetYear(p) == IntOf(p.year, 1, Len(p.year))
MonthOf(p) == IntOf(p.month, 1, Len(p.month))
DayOf(p) == IntOf(p.day, 1, Len(p.day))

\* the text of p denotes a valid calendar date
IsCalendarDate(p) ==
    /\ MonthOf(p) \in 1..12
    /\ DayOf(p) >= 1 /\ DayOf(p) <= DaysIn(OffsetYear(p) + 1911, MonthOf(p))

\* n written with k digits
RECURSIVE Padded(_, _)
Padded(n, k) ==
    IF k = 0 THEN <<>> ELSE Padded(n \div 10, k - 1) \o <<Numerals[(n % 10) + 1]>>

\* a date written back in the offset calendar: three digits of year, two of
\* month and of day
FormatRoc(dt, sep1, sep2) ==
    Padded(dt.year - 1911, 3) \o <<sep1>> \o Padded(dt.month, 2) \o <<sep2>>
    \o Padded(dt.day, 2)

\* C19 as stated: a text of one of the three accepted shapes that denotes a
\* valid calendar date is parsed to a timestamp of the offset year plus 1911,
\* the same month and day, the written time of day, midnight without one and
\* second 0 without seconds; written back with the same separators and parsed
\* again it gives the same offset year, month and day; a null or empty cell
\* and a text of none of the three shapes give a null result.
C19_DateNormalizer ==
    (call.fn = "parse_roc_datetime" /\ call.pc = "done") =>
        LET p == call.parts
            out == call.out
        IN  /\ (IsShape(p) /\ IsCalendarDate(p)) =>
                  /\ out = [kind |-> "datetime", year |-> OffsetYear(p) + 1911,
                            month |-> MonthOf(p), day |-> DayOf(p),
                            hour |-> p.time.hour, minute |-> p.time.minute,
                            second |-> p.time.second]
                  /\ LET again == parse_roc_datetime(
                                      <<FormatRoc(out, p.sep1, p.sep2)>>)
                     IN  /\ again.kind = "datetime"
                         /\ again.year = OffsetYear(p) + 1911
                         /\ again.month = MonthOf(p)
                         /\ again.day = DayOf(p)
            /\ ~IsShape(p) => out = NoDatetime

---------------------------------------------------------------------------
(* calculate_shift and the temporal fields of a stored record *)

\* days of the offset calendar with their day of the week (0 is Monday)
ShiftDates ==
    {[offset_year |-> 114, month |-> 1, day |-> 8, weekday |-> 2],
     [offset_year |-> 113, month |-> 2, day |-> 29, weekday |-> 3],
     [offset_year |-> 113, month |-> 12, day |-> 31, weekday |-> 1],
     [offset_year |-> 89, month |-> 2, day |-> 29, weekday |-> 1],
     [offset_year |-> 100, month |-> 1, day |-> 1, weekday |-> 5],
     [offset_year |-> 114, month |-> 3, day |-> 1, weekday |-> 5]}

\* the moments written in a time cell: a day, and an hour or no time of day
Moments == [on : ShiftDates, hour : 0..23, timed : BOOLEAN]

NoMoment ==
    [on |-> [offset_year |-> 0, month |-> 0, day |-> 0, weekday |-> 0],
     hour |-> 0, timed |-> FALSE]

\* the text of the time cell of a moment: YYY/MM/DD or YYY/MM/DD HH:30
MomentText(at) ==
    Padded(at.on.offset_year, 3) \o <<"/">> \o Padded(at.on.month, 2)
    \o <<"/">> \o Padded(at.on.day, 2)
    \o (IF at.timed THEN <<" ">> \o Padded(at.hour, 2) \o <<":", "3", "0">>
        ELSE <<>>)

NoRecord == [key |-> None]

InitShift ==
    /\ NoImport
    /\ call \in
         {[fn |-> "calculate_shift", pc |-> "call", kind |-> k, at |-> at,
           tm |-> <<MomentText(at)>>, dt |-> NoDatetime, shift |-> <<>>,
           record |-> NoRecord] :
              k \in {"crash", "ticket"},
              at \in {m \in Moments : m.timed \/ m.hour = 0}}
         \cup
         {[fn |-> "calculate_shift", pc |-> "call", kind |-> k,
           at |-> NoMoment, tm |-> <<>>, dt |-> NoDatetime, shift |-> <<>>,
           record |-> NoRecord] : k \in {"crash", "ticket"}}

\* the time cell is parsed and the shift of the result computed
CalculateShift ==
    /\ call.fn = "calculate_shift" /\ call.pc = "call"
    /\ LET dt == ParseTime(call.tm)
       IN  call' = [call EXCEPT !.pc = "shift", !.dt = dt,
                                !.shift = calculate_shift(dt)]
    /\ UNCHANGED <<crashes, tickets, req, rowsRead, started>>

\* the record of a row with this time cell, built when the time was parsed
StoreRecord ==
    /\ call.fn = "calculate_shift" /\ call.pc = "shift"
    /\ call.dt.kind = "datetime"
    /\ call' =
         [call EXCEPT
            !.pc = "done",
            !.record =
               IF call.kind = "crash"
               THEN NewCrash("K1", [id |-> "K1", tm |-> call.tm,
                                    dat |-> "A1", ne |-> 3,
                                    opt |-> NoOptional], 1)
               ELSE NewTicket("T1", [id |-> "T1", tm |-> call.tm,
                                     dat |-> "3501", ne |-> 3], 1)]
    /\ UNCHANGED <<crashes, tickets, req, rowsRead, started>>

NextShift == CalculateShift \/ StoreRecord

SpecShift == InitShift /\ [][NextShift]_vars

ShiftIds == {Padded(k, 2) : k \in 1..12}

\* C20: calculate_shift gives the two digits of (hour // 2) + 1 for every
\* hour 0..23 and 01 for a null timestamp; the record built from a row has a
\* shift_id in 01..12 that is this value for the record's own timestamp, and
\* its date, year, month and day_of_week are those of that timestamp.
C20_TemporalFields ==
    (call.fn = "calculate_shift" /\ call.pc # "call") =>
        LET at == call.at
            rec == call.record
            stamp == IF call.kind = "crash" THEN rec.occurred_time
                     ELSE rec.violation_time
            date == IF call.kind = "crash" THEN rec.occurred_date
                    ELSE rec.violation_date
        IN  /\ call.dt = NoDatetime => call.shift = <<"0", "1">>
            /\ call.dt # NoDatetime =>
                  /\ call.dt.hour = (IF at.timed THEN at.hour ELSE 0)
                  /\ call.shift = Padded((call.dt.hour \div 2) + 1, 2)
            /\ call.pc = "done" =>
                  /\ stamp = call.dt
                  /\ rec.shift_id \in ShiftIds
                  /\ rec.shift_id = Padded((stamp.hour \div 2) + 1, 2)
                  /\ date = [year |-> at.on.offset_year + 1911,
                             month |-> at.on.month, day |-> at.on.day]
                  /\ rec.year = stamp.year /\ rec.year = date.year
                  /\ rec.month = stamp.month /\ rec.month = date.month
                  /\ rec.day_of_week = at.on.weekday

\* a ticket of the last hour of a leap day is stored with shift 12
C20_Witness ==
    /\ call.fn = "calculate_shift" /\ call.pc = "done"
    /\ call.kind = "ticket"
    /\ call.at.timed /\ call.at.hour = 23
    /\ call.at.on.month = 2 /\ call.at.on.day = 29
    /\ call.record.shift_id = <<"1", "2">>
    /\ call.record.day_of_week = 3

---------------------------------------------------------------------------
(* Order of the checks of a row *)

\* the row that request r has just handled was counted as a time error
TimeError(r) ==
    /\ Len(req'[r].failed) = Len(req[r].failed) + 1
    /\ req'[r].failed[Len(req'[r].failed)].kind = "time"

\* C21 as stated: a row whose key is already stored is counted as skipped,
\* whatever its time cell holds, and a row counted as a time error has a key
\* that is not stored.
C21_CheckOrder ==
    [][\A r \in Slots :
          (RowStep(r) /\ IsImport(req[r]) /\ HasKey(req[r].kind, req'[r].row)) =>
              LET q == req[r]
                  stored == Existing(TableOf(q.kind),
                                     KeyOfRow(q.kind, req'[r].row))
              IN  /\ stored => /\ req'[r].skipped = q.skipped + 1
                               /\ req'[r].errors = q.errors
                               /\ req'[r].new = q.new
                  /\ TimeError(r) => ~stored]_vars

---------------------------------------------------------------------------
(* Batch commits *)

\* C22 as stated: a commit is due exactly when the new counter has reached a
\* positive multiple of the batch size; between two rows the records of the
\* import that are durable are the first (batch size) x floor(new / batch
\* size) inserted ones and the others are staged; after the summary all new
\* records are durable and none is staged.
C22_BatchCommits ==
    \A r \in Slots :
        LET q == req[r]
        IN  WasRead(q) =>
              /\ q.pc = "commit" =>
                    /\ q.new > 0 /\ q.new % CommitEvery = 0
                    /\ q.durable = q.new - CommitEvery
                    /\ Len(q.pending) = CommitEvery
              /\ q.pc = "row" =>
                    /\ q.durable = CommitEvery * (q.new \div CommitEvery)
                    /\ Len(q.pending) = q.new % CommitEvery
              /\ (q.pc = "done" /\ q.resp = "ok") =>
                    /\ q.durable = q.new
                    /\ q.pending = <<>>

---------------------------------------------------------------------------
(* Two imports that race on a key *)

\* request r has staged a record whose key another request stored after r
\* had queried for it
LostRace(r) ==
    \E i \in 1..Len(req[r].pending) :
        Existing(TableOf(req[r].kind), req[r].pending[i].key)

\* request r has just flushed its staged records (db.commit())
Flushed(r) ==
    WasRead(req[r]) /\ req[r].pending # <<>> /\ req'[r].pending = <<>>

\* C23 as stated: a request that staged a key which a concurrent request has
\* stored in the meantime still commits and ends with the summary, the store
\* holds one record for the key, and the new counter of the request is the
\* number of records it added to the store.
C23_RaceOutcome ==
    [][\A r \in Slots :
          (Flushed(r) /\ LostRace(r)) =>
              LET q == req'[r]
                  after == IF q.kind = "crash" THEN crashes' ELSE tickets'
              IN  /\ q.sess = "active"
                  /\ q.pc = "done" => q.resp = "ok"
                  /\ \A i \in 1..Len(req[r].pending) :
                        Cardinality({c \in after :
                                        c.key = req[r].pending[i].key}) = 1
                  /\ q.pc = "done" =>
                        q.new = Cardinality({c \in after :
                                    c.import_batch_id = q.batch_id})]_vars

---------------------------------------------------------------------------
(* Intersection descriptions *)

\* the description is one of an intersection: no address of Addresses holds
\* the ideograph "and", so only the synthesis puts it there
IsIntersection(desc) == "W" \in SeqRange(desc)

\* C24 as stated: the description is that of an intersection only when the
\* separator-split segments of the address give at least two distinct road
\* names; with the same road twice or fewer than two roads the single-road
\* description stays.
C24_Intersection ==
    (call.fn = "deidentify_address" /\ call.pc = "done") =>
        LET roads == Roads(Split(StripText(call.address), <<>>))
        IN  IsIntersection(call.out[2]) => Cardinality(SeqRange(roads)) >= 2

---------------------------------------------------------------------------
(* The optional cells of a crash row: one row handled by a fresh request *)

\* what the first age column holds
AgeCells ==
    {Absent, Empty} \cup {Number(n) : n \in {0, 17, 18, 24, 25, 44, 45, 64, 65}}
    \cup {Text(<<"a", "b", "c">>), Text(<<"i", "n", "f">>), Text(<<"3", "0">>)}

\* what the second age column holds
Age2Cells == {Absent, Empty, Number(0), Number(30)}

\* birth dates with the age they give on 114/01/08, the day of TimeOk
BirthDates ==
    {[text |-> <<"9", "6", "/", "0", "1", "/", "0", "8">>, age |-> 18],
     [text |-> <<"9", "6", "/", "0", "1", "/", "0", "9">>, age |-> 17],
     [text |-> <<"4", "9", "/", "0", "1", "/", "0", "8">>, age |-> 65],
     [text |-> <<"4", "9", "/", "0", "1", "/", "0", "9">>, age |-> 64],
     [text |-> <<"8", "9", "/", "0", "2", "/", "2", "9">>, age |-> 24],
     [text |-> <<"7", "0", "/", "0", "1", "/", "0", "8">>, age |-> 44]}

BirthCells ==
    {Absent, Empty, Text(BirthInvalid), Text(TimeBad)}
    \cup {Text(b.text) : b \in BirthDates}

\* a request at its first row, with nothing stored
FreshRequest == [IdleReq EXCEPT !.kind = "crash", !.pc = "row", !.batch_id = 1]

InitAge ==
    /\ NoImport
    /\ call \in
         {[fn |-> "import_crash_file", pc |-> "call",
           row |-> [id |-> "K1", tm |-> <<TimeOk>>, dat |-> "A1", ne |-> 5,
                    opt |-> [age |-> a, age2 |-> a2, birth |-> b]],
           out |-> FreshRequest] :
              a \in AgeCells, a2 \in Age2Cells, b \in BirthCells}

\* the body of the row loop for this row
HandleRow ==
    /\ call.fn = "import_crash_file" /\ call.pc = "call"
    /\ call' = [call EXCEPT !.pc = "done",
                            !.out = CrashRow(FreshRequest, call.row, {})]
    /\ UNCHANGED <<crashes, tickets, req, rowsRead, started>>

NextAge == HandleRow

SpecAge == InitAge /\ [][NextAge]_vars

\* the row holds a number in an age column; the first column comes first
HasAgeValue(opt) ==
    \/ opt.age.t = "number"
    \/ IsNa(opt.age) /\ opt.age2.t = "number"

AgeValue(opt) == IF opt.age.t = "number" THEN opt.age.v ELSE opt.age2.v

\* the group of an integer age
GroupOf(n) ==
    CASE n < 18 -> "<18"
      [] n >= 18 /\ n < 25 -> "18-24"
      [] n >= 25 /\ n < 45 -> "25-44"
      [] n >= 45 /\ n < 65 -> "45-64"
      [] OTHER -> "65+"

\* the record the row was stored as has the group of age n
StoredWithAge(out, n) ==
    /\ out.new = 1 /\ Len(out.pending) = 1
    /\ out.pending[1].driver_age_group = GroupOf(n)
    /\ out.pending[1].is_elderly = (n >= 65)

\* C25 as stated: a row with an age value and a birth date is stored with
\* the group of the age value, for every numeric age including 0; a row
\* with a birth date and no age value is stored with the group of the age
\* computed from the birth date.
C25_AgePrecedence ==
    (call.fn = "import_crash_file" /\ call.pc = "done") =>
        LET opt == call.row.opt
        IN  /\ (HasAgeValue(opt) /\ opt.birth.t = "text") =>
                  StoredWithAge(call.out, AgeValue(opt))
            /\ \A b \in BirthDates :
                  (IsNa(opt.age) /\ IsNa(opt.age2) /\ opt.birth = Text(b.text)) =>
                      StoredWithAge(call.out, b.age)

\* C26 as stated: a crash row with a case identifier that is not stored and
\* a parseable time is stored and counted as new, whatever its age and
\* birth-date cells hold.
C26_OptionalCells ==
    (call.fn = "import_crash_file" /\ call.pc = "done") =>
        /\ call.out.new = 1 /\ Len(call.out.pending) = 1
        /\ call.out.errors = 0 /\ call.out.skipped = 0

---------------------------------------------------------------------------
(* The counters of a crash import *)

\* the rows of the file left out without a count
BlankRows(q) ==
    Cardinality({i \in 1..Len(q.file) :
        case_id(q.file[i]) = None /\ q.file[i].ne < BlankRowCells})

\* C27 as stated: at the end of a crash import every data row is counted in
\* at most one of new, skipped and errors: the three counters add up to no
\* more than the number of rows, and the rows they leave out are the blank
\* rows.
C27_CounterPartition ==
    \A r \in Slots :
        (req[r].kind = "crash" /\ req[r].pc = "done" /\ WasRead(req[r])
           /\ req[r].keep) =>
            LET q == req[r]
            IN  /\ q.new + q.skipped + q.errors <= Len(q.file)
                /\ Len(q.file) - (q.new + q.skipped + q.errors) = BlankRows(q)

---------------------------------------------------------------------------
(* get_accident_hotspots: the period, the baseline period and the trend *)

\* most crashes stored at one place on one day
MaxPerDay == 2

Date(year, month, day) == [year |-> year, month |-> month, day |-> day]

\* dates compare as (year, month, day)
DateNum(d) == d.year * 10000 + d.month * 100 + d.day

\* the last day of the month before
PrevMonthEnd(d) ==
    IF d.month > 1 THEN Date(d.year, d.month - 1, DaysIn(d.year, d.month - 1))
    ELSE Date(d.year - 1, 12, 31)

\* d - timedelta(days=n)
RECURSIVE MinusDays(_, _)
MinusDays(d, n) ==
    IF n < d.day THEN Date(d.year, d.month, d.day - n)
    ELSE MinusDays(PrevMonthEnd(d), n - d.day)

\* d.replace(year=year): raises when the day does not exist in that year
ReplaceYear(d, year) ==
    IF d.day > DaysIn(year, d.month) THEN ValueError
    ELSE Date(year, d.month, d.day)

\* the places of the stored crashes, in the order of the grouped query, and
\* the days they happened on
Places == <<"P1", "P2">>

CrashDates == <<Date(2024, 2, 20), Date(2023, 2, 20), Date(2023, 2, 28)>>

\* number of crashes stored at the place from start_date to end_date
RECURSIVE CountFrom(_, _, _, _, _)
CountFrom(stored, place, start_date, end_date, k) ==
    IF k > Len(CrashDates) THEN 0
    ELSE (IF DateNum(CrashDates[k]) >= DateNum(start_date)
             /\ DateNum(CrashDates[k]) <= DateNum(end_date)
          THEN stored[<<place, k>>] ELSE 0)
         + CountFrom(stored, place, start_date, end_date, k + 1)

CountIn(stored, place, start_date, end_date) ==
    CountFrom(stored, place, start_date, end_date, 1)

\* the period of a query: a month when year and month are given, else the
\* days before today
PeriodOf(q) ==
    IF q.year # 0 /\ q.month # 0
    THEN [start |-> Date(q.year, q.month, 1),
          end |-> Date(q.year, q.month, DaysIn(q.year, q.month))]
    ELSE [start |-> MinusDays(q.today, q.days), end |-> q.today]

\* round(x, 1) of num / den in tenths, den > 0
round1(num, den) ==
    LET t == (10 * num) \div den
        r == (10 * num) % den
    IN  IF 2 * r > den \/ (2 * r = den /\ t % 2 = 1) THEN t + 1 ELSE t

\* order_by(desc('total'))
RECURSIVE InsertByTotal(_, _)
InsertByTotal(x, sorted) ==
    IF sorted = <<>> THEN <<x>>
    ELSE IF Head(sorted).total >= x.total
         THEN <<Head(sorted)>> \o InsertByTotal(x, Tail(sorted))
         ELSE <<x>> \o sorted

\* the groups of the period with their totals, largest first
RECURSIVE GroupsFrom(_, _, _)
GroupsFrom(stored, period, k) ==
    IF k = 0 THEN <<>>
    ELSE LET total == CountIn(stored, Places[k], period.start, period.end)
             rest == GroupsFrom(stored, period, k - 1)
         IN  IF total = 0 THEN rest
             ELSE InsertByTotal([place |-> Places[k], total |-> total], rest)

NoTrend == [t |-> "None"]

\* the hotspot entry of a group
HotspotItem(stored, row, compare_baseline, baseline) ==
    LET baseline_count ==
            IF compare_baseline
            THEN CountIn(stored, row.place, baseline.start, baseline.end)
            ELSE 0
    IN  [place |-> row.place, total |-> row.total,
         trend_pct |->
            IF compare_baseline /\ baseline_count > 0
            THEN [t |-> "tenths",
                  v |-> round1((row.total - baseline_count) * 100, baseline_count)]
            ELSE NoTrend]

NoBaseline == [t |-> "None"]

get_accident_hotspots(stored, q) ==
    LET period == PeriodOf(q)
        results == GroupsFrom(stored, period, Len(Places))
        shown == SubSeq(results, 1, Min(q.top_n, Len(results)))
        baseline_start == ReplaceYear(period.start, period.start.year - 1)
        baseline_end == ReplaceYear(period.end, period.end.year - 1)
        baseline == [start |-> baseline_start, end |-> baseline_end]
    IN  IF q.compare_baseline /\ ValueError \in {baseline_start, baseline_end}
        THEN ValueError
        ELSE [kind |-> "ok", period |-> period,
              baseline |-> IF q.compare_baseline THEN baseline ELSE NoBaseline,
              hotspots |-> [n \in 1..Len(shown) |->
                  HotspotItem(stored, shown[n], q.compare_baseline, baseline)]]

HotspotQueries ==
    {[year |-> y, month |-> m, days |-> 30, today |-> Date(2025, 3, 1),
      top_n |-> n, compare_baseline |-> c] :
         y \in {2023, 2024}, m \in {2, 3}, n \in {1, 10}, c \in BOOLEAN}
    \cup
    {[year |-> 0, month |-> 0, days |-> d, today |-> t,
      top_n |-> n, compare_baseline |-> c] :
         d \in {1, 30, 366},
         t \in {Date(2024, 2, 29), Date(2024, 3, 1), Date(2024, 3, 15), Date(2025, 3, 1)},
         n \in {1, 10}, c \in BOOLEAN}

InitHotspot ==
    /\ NoImport
    /\ call \in
         {[fn |-> "get_accident_hotspots", pc |-> "call", stored |-> st,
           query |-> q, out |-> NoBaseline] :
              st \in [{<<Places[i], k>> : i \in 1..Len(Places), k \in 1..Len(CrashDates)}
                        -> 0..MaxPerDay],
              q \in HotspotQueries}

GetAccidentHotspots ==
    /\ call.fn = "get_accident_hotspots" /\ call.pc = "call"
    /\ call' = [call EXCEPT !.pc = "done",
                            !.out = get_accident_hotspots(call.stored, call.query)]
    /\ UNCHANGED <<crashes, tickets, req, rowsRead, started>>

NextHotspot == GetAccidentHotspots

SpecHotspot == InitHotspot /\ [][NextHotspot]_vars

\* the same day one year earlier, the 28th for the 29th of February
YearBefore(d) ==
    Date(d.year - 1, d.month,
         IF d.day > DaysIn(d.year - 1, d.month) THEN DaysIn(d.year - 1, d.month)
         ELSE d.day)

\* the entry's trend is (current - baseline) / baseline x 100 to one decimal
TrendOf(item, baseline_count) ==
    IF baseline_count = 0 THEN item.trend_pct = NoTrend
    ELSE /\ item.trend_pct # NoTrend
         /\ LET exact == 2000 * (item.total - baseline_count)
                shown == 2 * item.trend_pct.v * baseline_count
            IN  shown - exact <= baseline_count /\ exact - shown <= baseline_count

\* C28 as stated: with compare_baseline the query answers for every month
\* and every window of days, the 29th of February included; the baseline
\* period is the period one year earlier, and the trend of a hotspot is
\* (current - baseline) / baseline x 100 rounded to one decimal, absent
\* when the baseline count is 0.
C28_Baseline ==
    (call.fn = "get_accident_hotspots" /\ call.pc = "done"
       /\ call.query.compare_baseline) =>
        /\ call.out # ValueError
        /\ call.out.period = PeriodOf(call.query)
        /\ call.out.baseline.start = YearBefore(call.out.period.start)
        /\ call.out.baseline.end = YearBefore(call.out.period.end)
        /\ \A n \in 1..Len(call.out.hotspots) :
              TrendOf(call.out.hotspots[n],
                      CountIn(call.stored, call.out.hotspots[n].place,
                              call.out.baseline.start, call.out.baseline.end))

---------------------------------------------------------------------------
(* get_cross_analysis: crashes and tickets by district and shift *)

(* District names are texts; "C" stands for the ideograph "city" (shi) that *)
(* some stored names carry in front, "E", "N" and "Q" are as above.         *)

\* a district that is NULL in the store, or a query without district
NoDistrict == <<"None">>

\* normalize_district(district)
normalize_district(district) ==
    IF district # NoDistrict /\ district # <<>> /\ district[1] = "C"
    THEN Tail(district)
    ELSE district

\* get_district_variants(district)
get_district_variants(district) ==
    LET base == normalize_district(district)
    IN  {base, <<"C">> \o base}

\* the day of today, and the days of the stored records, as day numbers
Today == 100

\* get_data_end_date(db): the latest stored date, today at most
get_data_end_date(crashRows, ticketRows) ==
    LET dates == {c.day : c \in crashRows} \cup {t.day : t \in ticketRows}
    IN  IF dates = {} THEN Today
        ELSE Min(CHOOSE d \in dates : \A e \in dates : e <= d, Today)

\* the stored district names and shifts, in the order of the grouped query
StoredDistricts == <<<<"C", "E", "Q">>, <<"E", "Q">>, <<"N", "Q">>>>

CrossShifts == <<"01", "02">>

\* the k-th (district, shift_id) group
GroupKey(k) ==
    [district |-> StoredDistricts[((k - 1) \div Len(CrossShifts)) + 1],
     shift_id |-> CrossShifts[((k - 1) % Len(CrossShifts)) + 1]]

\* the rows that pass the conditions of a query
Filtered(rows, start_date, end_date, district) ==
    {x \in rows :
        /\ x.day >= start_date /\ x.day <= end_date
        /\ x.district # NoDistrict
        /\ district # NoDistrict => x.district \in get_district_variants(district)}

\* the groups of a grouped query with their counts, groups without rows
\* left out
RECURSIVE GroupStats(_, _)
GroupStats(rows, k) ==
    IF k = 0 THEN <<>>
    ELSE LET key == GroupKey(k)
             n == Cardinality({x \in rows : x.district = key.district
                                           /\ x.shift_id = key.shift_id})
         IN  IF n = 0 THEN GroupStats(rows, k - 1)
             ELSE Append(GroupStats(rows, k - 1),
                         [district |-> key.district, shift_id |-> key.shift_id,
                          count |-> n])

\* ticket_dict.get((district, shift_id), 0) after the loop over ticket_stats
RECURSIVE TicketDict(_, _, _)
TicketDict(ticket_stats, district, shift_id) ==
    IF ticket_stats = <<>> THEN 0
    ELSE LET t == Head(ticket_stats)
         IN  (IF normalize_district(t.district) = district /\ t.shift_id = shift_id
              THEN t.count ELSE 0)
             + TicketDict(Tail(ticket_stats), district, shift_id)

\* the entry of a crash group; the gap is kept in tenths
CrossEntry(c, ticket_stats) ==
    LET normalized_district == normalize_district(c.district)
        violations == TicketDict(ticket_stats, normalized_district, c.shift_id)
        gap == IF violations # 0 THEN 10 * c.count - violations ELSE 10 * c.count
    IN  [district |-> normalized_district, shift_id |-> c.shift_id,
         accidents |-> c.count, violations |-> violations,
         enforcement_gap |-> gap,
         priority |-> IF gap > 50 THEN "HIGH"
                      ELSE IF gap > 20 THEN "MEDIUM" ELSE "LOW"]

\* sort(key=enforcement_gap, reverse=True): equal entries keep their order
RECURSIVE InsertByGap(_, _)
InsertByGap(x, sorted) ==
    IF sorted = <<>> THEN <<x>>
    ELSE IF Head(sorted).enforcement_gap >= x.enforcement_gap
         THEN <<Head(sorted)>> \o InsertByGap(x, Tail(sorted))
         ELSE <<x>> \o sorted

RECURSIVE SortByGap(_)
SortByGap(list) ==
    IF list = <<>> THEN <<>>
    ELSE InsertByGap(list[Len(list)], SortByGap(SubSeq(list, 1, Len(list) - 1)))

get_cross_analysis(crashRows, ticketRows, district, days) ==
    LET end_date == get_data_end_date(crashRows, ticketRows)
        start_date == end_date - days
        crash_stats ==
            GroupStats(Filtered(crashRows, start_date, end_date, district),
                       Len(StoredDistricts) * Len(CrossShifts))
        ticket_stats ==
            GroupStats(Filtered(ticketRows, start_date, end_date, district),
                       Len(StoredDistricts) * Len(CrossShifts))
        cross_analysis ==
            SortByGap([n \in 1..Len(crash_stats) |->
                          CrossEntry(crash_stats[n], ticket_stats)])
    IN  [start_date |-> start_date, end_date |-> end_date,
         cross_analysis |-> cross_analysis,
         total_combinations |-> Len(cross_analysis)]

\* the crashes and tickets that may be stored
CrossCrashes ==
    {[id |-> 1, district |-> <<"C", "E", "Q">>, shift_id |-> "01", day |-> 100],
     [id |-> 2, district |-> <<"E", "Q">>, shift_id |-> "01", day |-> 100],
     [id |-> 3, district |-> <<"E", "Q">>, shift_id |-> "01", day |-> 95],
     [id |-> 4, district |-> <<"E", "Q">>, shift_id |-> "01", day |-> 100],
     [id |-> 5, district |-> <<"N", "Q">>, shift_id |-> "02", day |-> 100],
     [id |-> 6, district |-> <<"E", "Q">>, shift_id |-> "02", day |-> 60]}

CrossTickets ==
    {[id |-> 1, district |-> <<"C", "E", "Q">>, shift_id |-> "01", day |-> 100],
     [id |-> 2, district |-> <<"E", "Q">>, shift_id |-> "01", day |-> 100],
     [id |-> 3, district |-> <<"N", "Q">>, shift_id |-> "02", day |-> 95],
     [id |-> 4, district |-> <<"E", "Q">>, shift_id |-> "02", day |-> 60],
     [id |-> 5, district |-> NoDistrict, shift_id |-> "01", day |-> 100]}

InitCross ==
    /\ NoImport
    /\ call \in
         {[fn |-> "get_cross_analysis", pc |-> "call", crashRows |-> cs,
           ticketRows |-> ts, district |-> d, days |-> n,
           out |-> [cross_analysis |-> <<>>]] :
              cs \in SUBSET CrossCrashes, ts \in SUBSET CrossTickets,
              d \in {NoDistrict, <<"E", "Q">>, <<"C", "E", "Q">>, <<"N", "Q">>},
              n \in {1, 30}}

GetCrossAnalysis ==
    /\ call.fn = "get_cross_analysis" /\ call.pc = "call"
    /\ call' = [call EXCEPT !.pc = "done",
                  !.out = get_cross_analysis(call.crashRows, call.ticketRows,
                                             call.district, call.days)]
    /\ UNCHANGED <<crashes, tickets, req, rowsRead, started>>

NextCross == GetCrossAnalysis

SpecCross == InitCross /\ [][NextCross]_vars

\* sum of the violations figures of the entries
RECURSIVE TotalViolations(_)
TotalViolations(entries) ==
    IF entries = <<>> THEN 0
    ELSE Head(entries).violations + TotalViolations(Tail(entries))

\* C29 as stated: in the output each (district, shift) pair appears at most
\* once, and each stored ticket of the window is counted in the violations
\* of at most one entry, also when the store holds a district with and
\* without the leading "city" character.
C29_CrossKeys ==
    (call.fn = "get_cross_analysis" /\ call.pc = "done") =>
        LET entries == call.out.cross_analysis
        IN  /\ \A m, n \in 1..Len(entries) :
                  (entries[m].district = entries[n].district
                     /\ entries[m].shift_id = entries[n].shift_id) => m = n
            /\ TotalViolations(entries) <=
                  Cardinality({t \in call.ticketRows :
                      t.day >= call.out.start_date /\ t.day <= call.out.end_date})

---------------------------------------------------------------------------
(* get_violation_stats: districts, violations and topics of a window *)

\* the tickets that may be stored: every combination of the three topic
\* flags on the day of today, and two tickets 40 days old
StatTickets ==
    {[id |-> 1 + (IF dui THEN 4 ELSE 0) + (IF red THEN 2 ELSE 0)
                + (IF dangerous THEN 1 ELSE 0),
      violation_date |-> Today,
      district |-> IF dui THEN "d1" ELSE "d2",
      violation_code |-> IF red THEN "53" ELSE "35",
      topic_dui |-> dui, topic_red_light |-> red, topic_dangerous |-> dangerous] :
         dui \in BOOLEAN, red \in BOOLEAN, dangerous \in BOOLEAN}
    \cup
    {[id |-> 9, violation_date |-> Today - 40, district |-> "d1",
      violation_code |-> "35", topic_dui |-> TRUE, topic_red_light |-> FALSE,
      topic_dangerous |-> FALSE],
     [id |-> 10, violation_date |-> Today - 40, district |-> "d2",
      violation_code |-> "53", topic_dui |-> FALSE, topic_red_light |-> FALSE,
      topic_dangerous |-> FALSE]}

\* the tickets from start_date to end_date
InWindow(rows, start_date, end_date) ==
    {t \in rows : t.violation_date >= start_date /\ t.violation_date <= end_date}

\* a query grouped by one column, the groups with most rows first
RECURSIVE GroupedBy(_, _, _)
GroupedBy(rows, column, values) ==
    IF values = <<>> THEN <<>>
    ELSE LET n == Cardinality({t \in rows : t[column] = Head(values)})
             rest == GroupedBy(rows, column, Tail(values))
         IN  IF n = 0 THEN rest
             ELSE InsertByTotal([value |-> Head(values), total |-> n], rest)

get_violation_stats(rows, days) ==
    LET end_date == Today
        start_date == end_date - days
        window == InWindow(rows, start_date, end_date)
        district_stats == GroupedBy(window, "district", <<"d1", "d2">>)
        all_violations == GroupedBy(window, "violation_code", <<"35", "53">>)
        top_violations == SubSeq(all_violations, 1, Min(10, Len(all_violations)))
        dui_count == Cardinality({t \in window : t.topic_dui})
        red_light_count == Cardinality({t \in window : t.topic_red_light})
        dangerous_count == Cardinality({t \in window : t.topic_dangerous})
        total_tickets == Cardinality(window)
    IN  [start_date |-> start_date, end_date |-> end_date,
         total_tickets |-> total_tickets,
         districts |-> [n \in 1..Len(district_stats) |->
             [district |-> district_stats[n].value,
              count |-> district_stats[n].total,
              percentage |-> IF total_tickets > 0
                             THEN round1(district_stats[n].total * 100, total_tickets)
                             ELSE 0]],
         top_violations |-> [n \in 1..Len(top_violations) |->
             [code |-> top_violations[n].value, count |-> top_violations[n].total]],
         topics |-> [dui |-> dui_count, red_light |-> red_light_count,
                     dangerous_driving |-> dangerous_count,
                     others |-> total_tickets
                                - (dui_count + red_light_count + dangerous_count)]]

InitStats ==
    /\ NoImport
    /\ call \in
         {[fn |-> "get_violation_stats", pc |-> "call", rows |-> ts,
           days |-> n, out |-> [total_tickets |-> 0]] :
              ts \in SUBSET StatTickets, n \in {1, 30, 60}}

GetViolationStats ==
    /\ call.fn = "get_violation_stats" /\ call.pc = "call"
    /\ call' = [call EXCEPT !.pc = "done",
                            !.out = get_violation_stats(call.rows, call.days)]
    /\ UNCHANGED <<crashes, tickets, req, rowsRead, started>>

NextStats == GetViolationStats

SpecStats == InitStats /\ [][NextStats]_vars

\* C30 as stated: topics.others is the number of tickets of the window
\* that carry no topic flag, and is never negative, also when tickets carry
\* two or three flags.
C30_Others ==
    (call.fn = "get_violation_stats" /\ call.pc = "done") =>
        /\ call.out.topics.others >= 0
        /\ call.out.topics.others =
              Cardinality({t \in InWindow(call.rows, call.out.start_date,
                                          call.out.end_date) :
                  ~t.topic_dui /\ ~t.topic_red_light /\ ~t.topic_dangerous})

=============================================================================
